---------------------------- MODULE Spec2Model ----------------------------
(***************************************************************************)
(* ForexFlow decision pipeline: RiskGuardTool (risk_guard.py) followed by  *)
(* OptiTradeTool (opti_trade.py), as called by the unit tests, the first   *)
(* steps of MCPOrchestrator.recommend_trade, and the trend forecasters     *)
(* (bayesian_forecaster.py, trend_sense.py) on their own.                  *)
(*                                                                         *)
(* Floats are carried as scaled integers, exact on every value used:       *)
(*   stop_loss_pct, take_profit_pct   units of 0.0025   (0.005 = 2)        *)
(*   take-profit multiples, profit_target_multiplier  units of 0.5         *)
(*   max_risk_per_trade               units of 0.001    (0.01 = 10)        *)
(*   leverage                         units of 0.25     (1.0 = 4)          *)
(*   capital, solver position sizes   currency units                      *)
(*   prices                           units of 1/8000   (1.1 = 8800)       *)
(*   SearchState.position_size        units of 1/256                       *)
(*   probabilities, confidence        units of 0.1                         *)
(*   volatility                       units of 0.001                       *)
(*   max_drawdown                     units of 0.01                        *)
(*   score components                 units of 1e-6, scores units of 1e-8  *)
(*   forecaster likelihoods           units of 1/LikelihoodSteps           *)
(*   forecaster priors                units of 0.2      (0.40 = 2)         *)
(*   forecaster posteriors            exact fractions num/den              *)
(*   TrendSense probabilities         units of 1/ProbabilityUnit           *)
(***************************************************************************)
EXTENDS Integers, Sequences, FiniteSets, TLC

VARIABLES
    pc,                \* position in the request: idle, fetched, forecasted, solved, search,
                       \* extract, done, raised, analyze_raised
    capital,           \* portfolio.capital
    open_positions,    \* portfolio.open_positions
    max_drawdown,      \* portfolio.max_drawdown
    current_price,     \* market_state.current_price
    volatility,        \* market_state.indicators.volatility
    forecast,          \* trend_forecast: probability_up/down/neutral, confidence
    trader_profile,    \* the TraderProfile passed to both tools
    profile_config,    \* settings.TRADER_PROFILES[trader_profile.value] in force
    rc_source,         \* who built risk_constraints: "none", "solver" or "caller"
    risk_constraints,  \* the RiskConstraints handed to optimize
    tool_profile,      \* OptiTradeTool.trader_profile
    explored_states,   \* OptiTradeTool.explored_states
    reasoning_trace,   \* OptiTradeTool.reasoning_trace
    beam,              \* local `beam` of _beam_search
    depth,             \* loop variable `depth` of _beam_search
    next_id,           \* identity of the next SearchState object created
    recommendation,    \* the TradeRecommendation returned by optimize
    previous,          \* result of the previous optimize call with the same arguments
    explored_before,   \* len(self.explored_states) when the latest optimize call began
    stages,            \* the tools MCPOrchestrator.recommend_trade has called, in order
    likelihoods,       \* BayesianForecaster: likelihood_up/down/neutral
    posteriors,        \* BayesianForecaster: posterior_up/down/neutral
    trend_direction,   \* BayesianForecaster: `trend_direction` of forecast()
    probabilities,     \* TrendSenseTool: `probabilities` of analyze()
    direction,         \* TrendSenseTool: `direction` of analyze()
    historical_data,   \* market_state.historical_data handed to the forecaster
    indicators,        \* market_state.indicators handed to the forecaster
    features,          \* local `features` of FeatureExtractor.extract_features
    likelihood_scores  \* BayesianForecaster: `score` and likelihood, up and down

\* the feature extractor the forecaster owns, with its input
extractor == <<historical_data, indicators, features, likelihood_scores>>

forecaster == <<likelihoods, posteriors, trend_direction, probabilities, direction,
                extractor>>

vars == <<pc, capital, open_positions, max_drawdown, current_price, volatility,
          forecast, trader_profile, profile_config, rc_source, risk_constraints,
          tool_profile, explored_states, reasoning_trace, beam, depth, next_id,
          recommendation, previous, explored_before, stages, forecaster>>

-----------------------------------------------------------------------------
(* Bounds of the model *)

\* how many entries of CapitalGrid the requests draw their capital from
NumCapitals == 8
\* how many entries of ForecastGrid the requests draw their forecast from
NumForecasts == 5
\* how many entries of OverrideGrid may replace the configured profile record
NumOverrides == 3

CapitalGrid == <<10, 200, 2000, 10000, 20000, 100000, 200000, 1000, 250000, 150>>

ForecastGrid ==
    << [probability_up |-> 7, probability_down |-> 2, probability_neutral |-> 1, confidence |-> 8],
       [probability_up |-> 2, probability_down |-> 7, probability_neutral |-> 1, confidence |-> 7],
       [probability_up |-> 4, probability_down |-> 4, probability_neutral |-> 2, confidence |-> 4],
       [probability_up |-> 3, probability_down |-> 3, probability_neutral |-> 4, confidence |-> 4],
       [probability_up |-> 4, probability_down |-> 3, probability_neutral |-> 3, confidence |-> 4],
       [probability_up |-> 3, probability_down |-> 5, probability_neutral |-> 2, confidence |-> 5],
       [probability_up |-> 10, probability_down |-> 0, probability_neutral |-> 0, confidence |-> 10] >>

\* records an environment override of TRADER_PROFILES may put in force, each
\* with the profile key it replaces
OverrideGrid ==
    << [profile |-> "conservative",
        config |-> [max_risk_per_trade |-> 10, max_leverage |-> 6, profit_target_multiplier |-> 3]],
       [profile |-> "balanced",
        config |-> [max_risk_per_trade |-> 2, max_leverage |-> 8, profit_target_multiplier |-> 4]],
       [profile |-> "aggressive",
        config |-> [max_risk_per_trade |-> 2, max_leverage |-> 20, profit_target_multiplier |-> 6]],
       [profile |-> "conservative",
        config |-> [max_risk_per_trade |-> 1, max_leverage |-> 4, profit_target_multiplier |-> 3]],
       [profile |-> "balanced",
        config |-> [max_risk_per_trade |-> 1, max_leverage |-> 40, profit_target_multiplier |-> 4]] >>

Min(a, b) == IF a <= b THEN a ELSE b

Capitals == {CapitalGrid[i] : i \in 1..Min(NumCapitals, Len(CapitalGrid))}
Forecasts == {ForecastGrid[i] : i \in 1..Min(NumForecasts, Len(ForecastGrid))}
Overrides == {OverrideGrid[i] : i \in 1..Min(NumOverrides, Len(OverrideGrid))}

Prices == {8800, 10000}
Volatilities == {5, 500}
Portfolios == {[open_positions |-> 0, max_drawdown |-> 0],
               [open_positions |-> 2, max_drawdown |-> 3]}

-----------------------------------------------------------------------------
(* core/config.py *)

TraderProfile == {"conservative", "balanced", "aggressive"}

\* a configuration whose aggressive profile allows less leverage (0.5) than
\* the conservative one
TRADER_PROFILES_restricted ==
    [p \in {"conservative", "balanced", "aggressive"} |->
        CASE p = "conservative" ->
               [max_risk_per_trade |-> 10, max_leverage |-> 8, profit_target_multiplier |-> 3]
          [] p = "balanced" ->
               [max_risk_per_trade |-> 20, max_leverage |-> 20, profit_target_multiplier |-> 4]
          [] p = "aggressive" ->
               [max_risk_per_trade |-> 50, max_leverage |-> 2, profit_target_multiplier |-> 6]]

TRADER_PROFILES ==
    [p \in TraderProfile |->
        CASE p = "conservative" ->
               [max_risk_per_trade |-> 10, max_leverage |-> 8, profit_target_multiplier |-> 3]
          [] p = "balanced" ->
               [max_risk_per_trade |-> 20, max_leverage |-> 20, profit_target_multiplier |-> 4]
          [] p = "aggressive" ->
               [max_risk_per_trade |-> 50, max_leverage |-> 40, profit_target_multiplier |-> 6]]

SEARCH_BEAM_WIDTH == 5
SEARCH_MAX_DEPTH == 3

-----------------------------------------------------------------------------
(* mcp_tools/risk_guard.py *)

\* _initialize_variables: the (min, max) domain of each CSP variable.
\* position_size is capped at capital * 0.5, kept here doubled (2 * pos <= capital).
\* a size domain that reaches the whole capital
_initialize_variables_full_capital(cap, cfg) ==
    [position_size |-> [lo |-> 100, hi2 |-> 2 * cap],
     stop_loss_pct |-> [lo |-> 2, hi |-> 20],
     take_profit_pct |-> [lo |-> 4, hi |-> 60],
     leverage |-> [lo |-> 4, hi |-> cfg.max_leverage]]

_initialize_variables(cap, cfg) ==
    [position_size |-> [lo |-> 100, hi2 |-> cap],
     stop_loss_pct |-> [lo |-> 2, hi |-> 20],
     take_profit_pct |-> [lo |-> 4, hi |-> 60],
     leverage |-> [lo |-> 4, hi |-> cfg.max_leverage]]

\* Constraint 1: position_size * stop_loss_pct <= capital * max_risk_per_trade
max_risk_constraint(a, cap, cfg) ==
    a.position_size * a.stop_loss_pct * 5 <= cap * cfg.max_risk_per_trade * 2

\* Constraint 2: leverage <= max_leverage
leverage_constraint(a, cap, cfg) ==
    a.leverage <= cfg.max_leverage

\* a reward-ratio constraint that accepts every assignment
reward_ratio_unchecked(a, cap, cfg) == TRUE

\* Constraint 3: take_profit_pct >= stop_loss_pct * profit_target_multiplier
risk_reward_constraint(a, cap, cfg) ==
    a.take_profit_pct * 2 >= a.stop_loss_pct * cfg.profit_target_multiplier

\* Constraint 4: position_size / leverage <= capital * 0.9
capital_constraint(a, cap, cfg) ==
    a.position_size * 40 <= cap * 9 * a.leverage

\* _is_valid_assignment over the list built by _define_constraints
_is_valid_assignment(a, cap, cfg) ==
    /\ max_risk_constraint(a, cap, cfg)
    /\ leverage_constraint(a, cap, cfg)
    /\ risk_reward_constraint(a, cap, cfg)
    /\ capital_constraint(a, cap, cfg)

\* sorted(list(set(xs)), reverse=True)
RECURSIVE SortedDesc(_)
SortedDesc(S) ==
    IF S = {} THEN <<>>
    ELSE LET m == CHOOSE x \in S : \A y \in S : y <= x
         IN <<m>> \o SortedDesc(S \ {m})

\* with leverage in units of 0.25 the list is [max_lev, max_lev / 2, 1.0]
leverage_candidates(vs) ==
    SortedDesc({vs.leverage.hi, vs.leverage.hi \div 2, 4})

\* stop-loss candidates without the two tightest stops
sl_candidates_wide_only == <<8, 20>>

sl_candidates == <<2, 4, 8, 20>>
tp_multiples == <<3, 4, 6>>
pos_sizes == <<100000, 50000, 10000, 5000, 1000, 100>>

\* tp = sl * tp_mult.  Every product of the grid is the double nearest the
\* decimal product except 0.05 * 3.0 = 0.15000000000000002, one ulp above 0.15.
tp_of(sl, tp_mult) == (sl * tp_mult) \div 2
tp_ulp(sl, tp_mult) == IF sl = 20 /\ tp_mult = 6 THEN 1 ELSE 0

sl_in_domain(vs, sl) ==
    vs.stop_loss_pct.lo <= sl /\ sl <= vs.stop_loss_pct.hi

tp_in_domain(vs, sl, tp_mult) ==
    /\ vs.take_profit_pct.lo <= tp_of(sl, tp_mult)
    /\ \/ tp_of(sl, tp_mult) < vs.take_profit_pct.hi
       \/ tp_of(sl, tp_mult) = vs.take_profit_pct.hi /\ tp_ulp(sl, tp_mult) = 0

pos_in_domain(vs, pos) ==
    vs.position_size.lo <= pos /\ pos * 2 <= vs.position_size.hi2

Assignment(lev, sl, tp, pos) ==
    [leverage |-> lev, stop_loss_pct |-> sl, take_profit_pct |-> tp, position_size |-> pos]

\* `best_assignment = None`
None == Assignment(0, 0, 0, 0)

\* the inner `for pos in pos_sizes` loop from index i on: the first in-domain
\* size that passes every constraint (then `break`), or None
RECURSIVE first_valid_size(_, _, _, _, _, _, _)
first_valid_size(vs, cap, cfg, lev, sl, tp, i) ==
    IF i > Len(pos_sizes) THEN None
    ELSE LET a == Assignment(lev, sl, tp, pos_sizes[i])
         IN IF pos_in_domain(vs, pos_sizes[i]) /\ _is_valid_assignment(a, cap, cfg)
            THEN a
            ELSE first_valid_size(vs, cap, cfg, lev, sl, tp, i + 1)

\* `score = pos / lev` against `best_score` (initially -1.0), as fractions
\* an objective that ranks assignments by position size alone
csp_score_size_only(a) == [num |-> a.position_size * 4, den |-> 4]

csp_score(a) == [num |-> a.position_size * 4, den |-> a.leverage]
\* a comparison that also replaces the best on an equal score
score_ge(x, y) == x.num * y.den >= y.num * x.den

\* `if score > best_score`
score_gt(x, y) == x.num * y.den > y.num * x.den

\* one (lev, sl, tp_mult) combination of the nested loops applied to the
\* running (best_assignment, best_score)
csp_step(vs, cap, cfg, best, lev, sl, tp_mult) ==
    IF ~sl_in_domain(vs, sl) \/ ~tp_in_domain(vs, sl, tp_mult) THEN best
    ELSE LET a == first_valid_size(vs, cap, cfg, lev, sl, tp_of(sl, tp_mult), 1)
         IN IF a /= None /\ score_gt(csp_score(a), best.score)
            THEN [assignment |-> a, score |-> csp_score(a)]
            ELSE best

\* the three outer loops, flattened: combination k (0-based) is
\* (lev index, sl index, tp index) in row-major order.  The running best is
\* computed before the next iteration starts.
RECURSIVE csp_scan(_, _, _, _, _, _)
csp_scan(vs, cap, cfg, levs, best, k) ==
    IF k >= Len(levs) * Len(sl_candidates) * Len(tp_multiples) THEN best
    ELSE LET li == k \div (Len(sl_candidates) * Len(tp_multiples))
             si == (k \div Len(tp_multiples)) % Len(sl_candidates)
             ti == k % Len(tp_multiples)
             new_best == csp_step(vs, cap, cfg, best, levs[li + 1],
                                  sl_candidates[si + 1], tp_multiples[ti + 1])
         IN IF new_best.assignment = None
            THEN csp_scan(vs, cap, cfg, levs, best, k + 1)
            ELSE csp_scan(vs, cap, cfg, levs, new_best, k + 1)

_solve_csp(vs, cap, cfg) ==
    csp_scan(vs, cap, cfg, leverage_candidates(vs),
             [assignment |-> None, score |-> [num |-> -1, den |-> 1]], 0).assignment

\* a no-solution result that carries no violation message
no_solution_without_violations(price) ==
    [max_position_size |-> 0, stop_loss |-> price, take_profit |-> price,
     leverage |-> 4, risk_amount |-> 0, is_valid |-> FALSE,
     constraint_violations |-> <<>>,
     stop_loss_pct |-> 0, take_profit_pct |-> 0]

\* the RiskConstraints returned when `solution is None`
no_solution_constraints(price) ==
    [max_position_size |-> 0, stop_loss |-> price, take_profit |-> price,
     leverage |-> 4, risk_amount |-> 0, is_valid |-> FALSE,
     constraint_violations |-> <<"No valid solution satisfying all constraints">>,
     stop_loss_pct |-> 0, take_profit_pct |-> 0]

\* _build_risk_constraints: long-side price levels; risk_amount in units of 0.0025.
\* stop_loss_pct and take_profit_pct are not fields of RiskConstraints: they
\* record the assignment the levels were built from.
_build_risk_constraints(solution, price) ==
    [max_position_size |-> solution.position_size,
     stop_loss |-> (price * (400 - solution.stop_loss_pct)) \div 400,
     take_profit |-> (price * (400 + solution.take_profit_pct)) \div 400,
     leverage |-> solution.leverage,
     risk_amount |-> solution.position_size * solution.stop_loss_pct,
     is_valid |-> TRUE,
     constraint_violations |-> <<>>,
     stop_loss_pct |-> solution.stop_loss_pct,
     take_profit_pct |-> solution.take_profit_pct]

\* validate_and_optimize without its `if solution is None` branch
validate_and_optimize_unguarded(price, cap, cfg) ==
    _build_risk_constraints(_solve_csp(_initialize_variables(cap, cfg), cap, cfg), price)

validate_and_optimize(price, cap, cfg) ==
    LET variables == _initialize_variables(cap, cfg)
        solution == _solve_csp(variables, cap, cfg)
    IN IF solution = None
       THEN no_solution_constraints(price)
       ELSE _build_risk_constraints(solution, price)

-----------------------------------------------------------------------------
(* mcp_tools/opti_trade.py *)

\* SearchState.reasoning: the format string and its one argument
Reasoning(text, arg) == [text |-> text, arg |-> arg]

\* SearchState(...).  `id` is the identity of the object (creation order) and
\* `parent` the identity of the parent object, 0 for None; portfolio_state, a
\* copy of the portfolio that nothing reads, is left out.
SearchState(id, action, entry, size, sl, tp, lev, d, parent, reasoning) ==
    [id |-> id, action |-> action, entry_price |-> entry, position_size |-> size,
     stop_loss |-> sl, take_profit |-> tp, leverage |-> lev, score |-> 0,
     depth |-> d, parent |-> parent, reasoning |-> reasoning]

\* size fractions that halve at each step: 100%, 50%, 25%
size_multipliers_halving == <<4, 2, 1>>

\* `for size_multiplier in [1.0, 0.75, 0.5]`, in quarters
\* size fractions that start above the solved maximum
size_multipliers_oversized == <<5, 4, 3>>

size_multipliers == <<4, 3, 2>>

\* the BUY states of _generate_initial_states, ids from `id0` on
buy_states(price, rc, id0) ==
    [i \in 1..Len(size_multipliers) |->
        SearchState(id0 + i - 1, "buy", price,
                    rc.max_position_size * 64 * size_multipliers[i],
                    rc.stop_loss, rc.take_profit, rc.leverage, 0, 0,
                    Reasoning("Open BUY position (% of max size)", 25 * size_multipliers[i]))]

\* a SELL stop that reuses the long stop-loss level
sell_stop_loss_long(price, rc) == rc.stop_loss

\* sl_pct = (stop_loss - price) / price; sell_stop_loss = price * (1 - sl_pct)
sell_stop_loss(price, rc) == price - (rc.stop_loss - price)
\* tp_pct = (take_profit - price) / price; sell_take_profit = price * (1 - tp_pct)
sell_take_profit(price, rc) == price - (rc.take_profit - price)

\* the SELL states of _generate_initial_states
sell_states(price, rc, id0) ==
    [i \in 1..Len(size_multipliers) |->
        SearchState(id0 + i - 1, "sell", price,
                    rc.max_position_size * 64 * size_multipliers[i],
                    sell_stop_loss(price, rc), sell_take_profit(price, rc), rc.leverage, 0, 0,
                    Reasoning("Open SELL position (% of max size)", 25 * size_multipliers[i]))]

hold_state(price, id) ==
    SearchState(id, "hold", price, 0, price, price, 4, 0, 0,
                Reasoning("Hold current position - no trade", 0))

close_state(price, id) ==
    SearchState(id, "close", price, 0, price, price, 4, 0, 0,
                Reasoning("Close existing positions", 0))

\* an initial state generation that offers SELL whatever the forecast says
initial_states_sell_unfiltered(price, fc, rc, open, id0) ==
    LET buys == IF fc.probability_up > 3 THEN buy_states(price, rc, id0) ELSE <<>>
        sells == sell_states(price, rc, id0 + Len(buys))
        hold == <<hold_state(price, id0 + Len(buys) + Len(sells))>>
        close == IF open > 0
                 THEN <<close_state(price, id0 + Len(buys) + Len(sells) + 1)>> ELSE <<>>
    IN buys \o sells \o hold \o close

\* an initial state generation that offers CLOSE whatever the portfolio holds
initial_states_with_close(price, fc, rc, open, id0) ==
    LET buys == IF fc.probability_up > 3 THEN buy_states(price, rc, id0) ELSE <<>>
        sells == IF fc.probability_down > 3
                 THEN sell_states(price, rc, id0 + Len(buys)) ELSE <<>>
    IN buys \o sells \o <<hold_state(price, id0 + Len(buys) + Len(sells)),
                            close_state(price, id0 + Len(buys) + Len(sells) + 1)>>

_generate_initial_states(price, fc, rc, open, id0) ==
    LET buys == IF fc.probability_up > 3 THEN buy_states(price, rc, id0) ELSE <<>>
        sells == IF fc.probability_down > 3
                 THEN sell_states(price, rc, id0 + Len(buys)) ELSE <<>>
        hold == <<hold_state(price, id0 + Len(buys) + Len(sells))>>
        close == IF open > 0
                 THEN <<close_state(price, id0 + Len(buys) + Len(sells) + 1)>> ELSE <<>>
    IN buys \o sells \o hold \o close

Abs(x) == IF x < 0 THEN -x ELSE x

\* floor(a * b / 100) for a, b >= 0 without forming a * b
MulDiv100(a, b) == a * (b \div 100) + (a * (b % 100)) \div 100

\* tanh at the points k / 16, k = 0..64, in units of 1e-6
TanhTable ==
    << 0, 62419, 124353, 185333, 244919, 302710, 358357, 411570,
       462117, 509830, 554600, 596374, 635149, 670967, 703906, 734072,
       761594, 786619, 809301, 829802, 848284, 864907, 879827, 893193,
       905148, 915825, 925346, 933828, 941376, 948085, 954045, 959335,
       964028, 968187, 971873, 975137, 978026, 980583, 982845, 984846,
       986614, 988178, 989560, 990781, 991860, 992813, 993655, 994398,
       995055, 995635, 996147, 996599, 996998, 997350, 997661, 997936,
       998178, 998392, 998581, 998747, 998894, 999024, 999139, 999240,
       999329 >>

\* np.tanh(n / 204800000) for n >= 0, in units of 1e-6: the table, linearly
\* interpolated (rounded down) between its points and constant past the last.
\* One table step is 12800000 = 1000 * 12800 units of n.
TanhPos(n) ==
    LET k == n \div 12800000
        r == n % 12800000
    IN IF k + 1 >= Len(TanhTable) THEN TanhTable[Len(TanhTable)]
       ELSE LET dt == TanhTable[k + 2] - TanhTable[k + 1]
            IN TanhTable[k + 1]
               + (dt * (r \div 12800) + (dt * (r % 12800)) \div 12800) \div 1000

\* probability-weighted profit minus loss per unit of size, units of 1/80000
expected_per_unit(state, fc) ==
    CASE state.action = "buy" ->
           fc.probability_up * (state.take_profit - state.entry_price)
           - fc.probability_down * (state.entry_price - state.stop_loss)
      [] state.action = "sell" ->
           fc.probability_down * (state.entry_price - state.take_profit)
           - fc.probability_up * (state.stop_loss - state.entry_price)
      [] OTHER -> 0

\* np.tanh(expected / 1000.0); tanh is odd
_calculate_expected_profit(state, fc) ==
    LET e == expected_per_unit(state, fc)
        t == TanhPos(MulDiv100(Abs(e), state.position_size))
    IN IF e < 0 THEN -t ELSE t

\* min(reward / risk / 3.0, 1.0), units of 1e-6
_calculate_risk_reward(state) ==
    IF state.action \in {"hold", "close"} THEN 0
    ELSE LET risk == Abs(state.entry_price - state.stop_loss)
             reward == Abs(state.take_profit - state.entry_price)
         IN IF risk = 0 THEN 0
            ELSE Min((reward * 1000000) \div (3 * risk), 1000000)

_calculate_trend_alignment(state, fc) ==
    CASE state.action \in {"hold", "close"} -> 500000
      [] state.action = "buy" -> fc.probability_up * 100000
      [] OTHER -> fc.probability_down * 100000

\* the weighted sum of _evaluate_state, weights in hundredths
weighted_score(profile, ep, rr, ta, conf, vol_penalty, dd_penalty) ==
    CASE profile = "conservative" ->
           25 * ep + 35 * rr + 15 * ta + 10 * conf - 10 * vol_penalty - 5 * dd_penalty
      [] profile = "aggressive" ->
           60 * ep + 20 * rr + 15 * ta + 5 * conf
      [] OTHER ->
           35 * ep + 30 * rr + 20 * ta + 10 * conf - 5 * vol_penalty

\* an evaluation that gives CLOSE the neutral score of HOLD
evaluate_close_as_hold(state, profile, fc, vol, dd) ==
    CASE state.action \in {"hold", "close"} -> 0
      [] OTHER ->
           weighted_score(profile,
                          _calculate_expected_profit(state, fc),
                          _calculate_risk_reward(state),
                          _calculate_trend_alignment(state, fc),
                          fc.confidence * 100000,
                          vol * 10000,
                          dd * 10000)

_evaluate_state(state, profile, fc, vol, dd) ==
    CASE state.action = "hold" -> 0
      [] state.action = "close" -> 10000000
      [] OTHER ->
           weighted_score(profile,
                          _calculate_expected_profit(state, fc),
                          _calculate_risk_reward(state),
                          _calculate_trend_alignment(state, fc),
                          fc.confidence * 100000,
                          vol * 10000,
                          dd * 10000)

\* `state.score = self._evaluate_state(...)` for every state of a list
evaluate_all(states, profile, fc, vol, dd) ==
    [i \in 1..Len(states) |->
        [states[i] EXCEPT !.score = _evaluate_state(states[i], profile, fc, vol, dd)]]

\* list.sort(key=lambda s: s.score, reverse=True): stable, equal scores keep
\* their order.  insert_sorted puts e after every element scoring >= e.
RECURSIVE insert_sorted(_, _)
insert_sorted(sorted, e) ==
    IF Len(sorted) = 0 THEN <<e>>
    ELSE IF Head(sorted).score >= e.score
         THEN <<Head(sorted)>> \o insert_sorted(Tail(sorted), e)
         ELSE <<e>> \o sorted

RECURSIVE sort_by_score(_)
sort_by_score(states) ==
    IF Len(states) = 0 THEN <<>>
    ELSE insert_sorted(sort_by_score(SubSeq(states, 1, Len(states) - 1)),
                       states[Len(states)])

\* beam[:self.beam_width]
\* a beam that keeps every evaluated state
prune_nothing(states, width) == states

\* `beam[:self.beam_width]`
prune(states, width) == SubSeq(states, 1, Min(width, Len(states)))

\* f"{new_size:.0f}": round to the nearest integer, halves to even
format_0f(size) ==
    LET q == size \div 256
        r == size % 256
    IN IF r > 128 \/ (r = 128 /\ q % 2 = 1) THEN q + 1 ELSE q

\* `for size_adj in [1.25, 0.75]`, in quarters
size_adjustments == <<5, 3>>

\* one iteration of the size_adj loop that keeps the successor whatever its size
successor_unclipped(state, rc, d, adj, id) ==
    <<SearchState(id, state.action, state.entry_price, (state.position_size * adj) \div 4,
                  state.stop_loss, state.take_profit, state.leverage, d, state.id,
                  Reasoning("Adjust size to units",
                            format_0f((state.position_size * adj) \div 4)))>>

\* one iteration of the size_adj loop: the successor, when it is within bounds
successor(state, rc, d, adj, id) ==
    LET new_size == (state.position_size * adj) \div 4
    IN IF new_size <= rc.max_position_size * 256 /\ new_size >= 100 * 256
       THEN <<SearchState(id, state.action, state.entry_price, new_size,
                          state.stop_loss, state.take_profit, state.leverage, d, state.id,
                          Reasoning("Adjust size to units", format_0f(new_size)))>>
       ELSE <<>>

_generate_successors(state, rc, d, id0) ==
    IF state.action \in {"hold", "close"} THEN <<>>
    ELSE LET first == successor(state, rc, d, size_adjustments[1], id0)
         IN first \o successor(state, rc, d, size_adjustments[2], id0 + Len(first))

\* `for state in beam: successors.extend(self._generate_successors(...))`
RECURSIVE expand_beam(_, _, _, _)
expand_beam(states, rc, d, id0) ==
    IF Len(states) = 0 THEN <<>>
    ELSE LET new_states == _generate_successors(Head(states), rc, d, id0)
         IN new_states \o expand_beam(Tail(states), rc, d, id0 + Len(new_states))

\* reasoning_trace entries: the format string and its arguments
TraceLine(kind, a, b, c) == [kind |-> kind, a |-> a, b |-> b, c |-> c]

\* f"{score:.4f}": the score rounded to units of 1e-4
format_4f(score) == (score + 5000) \div 10000

\* the reasoning text of a TradeRecommendation: the summary sentence, the
\* confidence it quotes (-1 when it quotes none), the state's reasoning and
\* the search trace joined under "Search trace:"
RecReasoning(summary, conf, state_reasoning, trace) ==
    [summary |-> summary, confidence |-> conf, state_reasoning |-> state_reasoning,
     trace |-> trace]

TradeRecommendation(action, entry, size, sl, tp, lev, profit, rr, score, reasoning) ==
    [action |-> action, pair |-> "EURUSD", entry_price |-> entry, position_size |-> size,
     stop_loss |-> sl, take_profit |-> tp, leverage |-> lev, expected_profit |-> profit,
     risk_reward_ratio |-> rr, confidence_score |-> score, reasoning |-> reasoning]

\* the Field(...) bounds pydantic enforces when a TradeRecommendation is built
recommendation_is_valid(rec) ==
    /\ rec.entry_price > 0
    /\ rec.position_size >= 0
    /\ rec.stop_loss > 0
    /\ rec.take_profit > 0
    /\ rec.leverage > 0
    /\ rec.risk_reward_ratio >= 0
    /\ rec.confidence_score >= 0
    /\ rec.confidence_score <= 100000000

\* no TradeRecommendation (nothing returned yet, or the call raised)
NoRecommendation ==
    TradeRecommendation("none", 0, 0, 0, 0, 0, 0, 0, 0,
                        RecReasoning("", -1, Reasoning("", 0), <<>>))

\* expected_profit of the recommendation: price distance * size, divided by 100
recommendation_profit(state) ==
    CASE state.action = "buy" ->
           IF state.take_profit >= state.entry_price
           THEN MulDiv100(state.take_profit - state.entry_price, state.position_size)
           ELSE -MulDiv100(state.entry_price - state.take_profit, state.position_size)
      [] state.action = "sell" ->
           IF state.entry_price >= state.take_profit
           THEN MulDiv100(state.entry_price - state.take_profit, state.position_size)
           ELSE -MulDiv100(state.take_profit - state.entry_price, state.position_size)
      [] OTHER -> 0

_state_to_recommendation(state, fc, trace) ==
    LET reasoning ==
            CASE state.action = "buy" ->
                   RecReasoning("Bullish trend", fc.confidence, state.reasoning, trace)
              [] state.action = "sell" ->
                   RecReasoning("Bearish trend", fc.confidence, state.reasoning, trace)
              [] OTHER ->
                   RecReasoning("No strong trend signal", -1, state.reasoning, trace)
        risk_reward == _calculate_risk_reward(state)
    IN TradeRecommendation(state.action, state.entry_price, state.position_size,
                           state.stop_loss, state.take_profit, state.leverage,
                           recommendation_profit(state),
                           IF risk_reward > 0 THEN risk_reward * 3 ELSE 0,
                           state.score, reasoning)

_create_hold_recommendation(price, reason) ==
    TradeRecommendation("hold", price, 0, price, price, 4, 0, 0, 0,
                        RecReasoning(reason, -1, Reasoning("", 0), <<>>))

\* `if beam: return beam[0]`, else the fallback HOLD state
best_of_beam(b, price, id) ==
    IF Len(b) > 0 THEN b[1]
    ELSE SearchState(id, "hold", price, 0, price, price, 4, 0, 0,
                     Reasoning("Fallback HOLD", 0))

\* an optimize that searches whatever the validity flag says
constraints_always_accepted(rc) == FALSE

\* `if not risk_constraints.is_valid:` at the head of optimize
constraints_not_satisfied(rc) == ~rc.is_valid

\* the beam after the first evaluate / sort / prune of _beam_search
initial_beam(initial_states, profile, fc, vol, dd) ==
    prune(sort_by_score(evaluate_all(initial_states, profile, fc, vol, dd)),
          SEARCH_BEAM_WIDTH)

\* `for depth in range(1, self.max_depth + 1)` from depth d on: the final beam
RECURSIVE deepen(_, _, _, _, _, _, _, _)
deepen(b, d, id0, rc, profile, fc, vol, dd) ==
    IF d > SEARCH_MAX_DEPTH THEN b
    ELSE LET successors == expand_beam(b, rc, d, id0)
             kept == prune(sort_by_score(evaluate_all(successors, profile, fc, vol, dd)),
                           SEARCH_BEAM_WIDTH)
         IN IF Len(successors) = 0 THEN b
            ELSE deepen(kept, d + 1, id0 + Len(successors), rc, profile, fc, vol, dd)

\* _beam_search as a function of its arguments: the state it returns
_beam_search(initial_states, price, rc, profile, fc, vol, dd) ==
    best_of_beam(deepen(initial_beam(initial_states, profile, fc, vol, dd), 1,
                        1 + Len(initial_states), rc, profile, fc, vol, dd),
                 price, 1 + Len(initial_states))

-----------------------------------------------------------------------------
(* tests/test_opti_trade.py: RiskConstraints built by the caller *)

\* create_mock_data(): max_position_size 5000, stop_loss 1.0945, take_profit
\* 1.1110, leverage 2.0, risk_amount 25.0
mock_risk_constraints ==
    [max_position_size |-> 5000, stop_loss |-> 8756, take_profit |-> 8888,
     leverage |-> 8, risk_amount |-> 10000, is_valid |-> TRUE,
     constraint_violations |-> <<>>, stop_loss_pct |-> 2, take_profit_pct |-> 4]

\* test_opti_trade_invalid_constraints: `risk_constraints.is_valid = False`
invalid_mock_risk_constraints == [mock_risk_constraints EXCEPT !.is_valid = FALSE]

\* no RiskConstraints built yet
NoConstraints ==
    [max_position_size |-> 0, stop_loss |-> 0, take_profit |-> 0, leverage |-> 0,
     risk_amount |-> 0, is_valid |-> FALSE, constraint_violations |-> <<>>,
     stop_loss_pct |-> 0, take_profit_pct |-> 0]

\* (time.time() - start_time) * 1000 as the clock may report it, units of 0.01 ms
ElapsedTimes == {6, 10}

-----------------------------------------------------------------------------
(* bayesian_forecaster.py and trend_sense.py: the trend forecasters *)

\* BayesianForecaster.__init__: prior_up 0.40, prior_down 0.40, prior_neutral 0.20
prior_up == 2
prior_down == 2
prior_neutral == 1

\* likelihoods the three _calculate_likelihood_* functions can return, in [0, 1],
\* in units of 1/LikelihoodSteps
LikelihoodSteps == 4
LikelihoodGrid == 0..LikelihoodSteps

\* values `neutral_score` can take before it is clamped, same units
NeutralScores == (0 - 2)..(LikelihoodSteps + 2)

\* BayesianForecaster._calculate_likelihood_neutral: max(0.0, min(1.0, neutral_score))
_calculate_likelihood_neutral(neutral_score) ==
    LET capped == IF neutral_score < LikelihoodSteps THEN neutral_score ELSE LikelihoodSteps
    IN IF capped > 0 THEN capped ELSE 0

NoTriple == [up |-> 0, down |-> 0, neutral |-> 0]
NoPosteriors == [up |-> 0, down |-> 0, neutral |-> 0, den |-> 0]

\* the posteriors without the division by `total`
posteriors_unnormalized(likelihood_up, likelihood_down, likelihood_neutral) ==
    [up |-> likelihood_up * prior_up, down |-> likelihood_down * prior_down,
     neutral |-> likelihood_neutral * prior_neutral,
     den |-> LikelihoodSteps * (prior_up + prior_down + prior_neutral)]

\* BayesianForecaster._calculate_posteriors; the fraction up/den is posterior_up
_calculate_posteriors(likelihood_up, likelihood_down, likelihood_neutral) ==
    LET posterior_up == likelihood_up * prior_up
        posterior_down == likelihood_down * prior_down
        posterior_neutral == likelihood_neutral * prior_neutral
        total == posterior_up + posterior_down + posterior_neutral
    IN IF total > 0
       THEN [up |-> posterior_up, down |-> posterior_down,
             neutral |-> posterior_neutral, den |-> total]
       ELSE [up |-> prior_up, down |-> prior_down, neutral |-> prior_neutral,
             den |-> prior_up + prior_down + prior_neutral]

Max3(a, b, c) ==
    IF a >= b /\ a >= c THEN a ELSE IF b >= c THEN b ELSE c

\* the comparison chain with the downward branch tested first
determine_trend_down_first(prob_up, prob_down, prob_neutral) ==
    LET max_prob == Max3(prob_up, prob_down, prob_neutral)
    IN IF max_prob = prob_down THEN "bearish"
       ELSE IF max_prob = prob_up THEN "bullish"
       ELSE "neutral"

\* BayesianForecaster._determine_trend (arguments over one common denominator)
_determine_trend(prob_up, prob_down, prob_neutral) ==
    LET max_prob == Max3(prob_up, prob_down, prob_neutral)
    IN IF max_prob = prob_up THEN "bullish"
       ELSE IF max_prob = prob_down THEN "bearish"
       ELSE "neutral"

\* TrendSenseTool._determine_direction
_determine_direction(probs) ==
    LET max_prob == Max3(probs.up, probs.down, probs.neutral)
    IN IF probs.up = max_prob THEN "bullish"
       ELSE IF probs.down = max_prob THEN "bearish"
       ELSE "neutral"

\* distributions _calculate_probabilities can hand to _determine_direction
ProbabilityUnit == 12
ProbabilityTriples ==
    {[up |-> u, down |-> d, neutral |-> ProbabilityUnit - u - d] :
        u \in 0..ProbabilityUnit, d \in 0..ProbabilityUnit} \cap
    [up : 0..ProbabilityUnit, down : 0..ProbabilityUnit, neutral : 0..ProbabilityUnit]

\* ---------------------------------------------------------------------------
\* FeatureExtractor (services/probabilistic/feature_extraction.py).
\* Candle prices are in ticks of 0.05 and volumes in lots; returns are in units
\* of 1/400; indicator prices are in units of 1/8000 like current_price;
\* feature values are in units of 1e-5. An Optional field is a sequence of at
\* most one value. NaN stands for the float nan.

window_size == 20

NaN == 0 - 2000000000

\* models.market.OHLCV: a candle around its close
OHLCV(close, volume) ==
    [open |-> close, high |-> close + 1, low |-> close - 1, close |-> close,
     volume |-> volume]

\* models.market.MarketIndicators
MarketIndicators(sma_20, sma_50, rsi, atr) ==
    [sma_20 |-> sma_20, sma_50 |-> sma_50, rsi |-> rsi, atr |-> atr]

NoIndicators == MarketIndicators(0, 0, <<>>, <<>>)
NoScores == [up |-> 0, down |-> 0, likelihood_up |-> 0, likelihood_down |-> 0]

\* xs[-k:]
LastOf(xs, k) ==
    IF Len(xs) <= k THEN xs ELSE SubSeq(xs, Len(xs) - k + 1, Len(xs))

\* np.sum
RECURSIVE Sum(_)
Sum(xs) == IF Len(xs) = 0 THEN 0 ELSE xs[1] + Sum(Tail(xs))

Squares(xs) == [i \in 1..Len(xs) |-> xs[i] * xs[i]]

\* the largest r in lo..hi with r * r <= n
RECURSIVE isqrt_between(_, _, _)
isqrt_between(n, lo, hi) ==
    IF lo >= hi THEN lo
    ELSE LET mid == (lo + hi + 1) \div 2
         IN IF mid * mid <= n THEN isqrt_between(n, mid, hi)
            ELSE isqrt_between(n, lo, mid - 1)

isqrt(n) == isqrt_between(n, 0, 46340)

\* len(xs)^2 times the population variance of xs
Spread(xs) == Len(xs) * Sum(Squares(xs)) - Sum(xs) * Sum(xs)

\* np.std of returns, rounded down to feature units; nan for an empty array
std_of_returns(rs) ==
    IF Len(rs) = 0 THEN NaN ELSE (isqrt(Spread(rs) * 100) * 25) \div Len(rs)

\* np.std of closes, rounded down to feature units; nan for an empty array
std_of_closes(cs) ==
    IF Len(cs) = 0 THEN NaN ELSE (isqrt(Spread(cs) * 250000) * 10) \div Len(cs)

\* `historical = market_state.historical_data[-self.window_size:]`
window(data) == LastOf(data, window_size)

closes_of(historical) == [i \in 1..Len(historical) |-> historical[i].close]

\* `returns = np.diff(closes) / closes[:-1]`
returns_of(closes) ==
    IF Len(closes) < 2 THEN <<>>
    ELSE [i \in 1..(Len(closes) - 1) |->
             ((closes[i + 1] - closes[i]) * 400) \div closes[i]]

SeqMax(xs) == CHOOSE m \in {xs[i] : i \in 1..Len(xs)} : \A i \in 1..Len(xs) : xs[i] <= m
SeqMin(xs) == CHOOSE m \in {xs[i] : i \in 1..Len(xs)} : \A i \in 1..Len(xs) : xs[i] >= m

\* `np.mean(returns[-k:]) if len(returns) >= k else 0.0`
price_change(returns, k) ==
    IF Len(returns) >= k THEN (Sum(LastOf(returns, k)) * 250) \div k ELSE 0

\* np.max and np.min raise ValueError on an empty array
price_features_raise(data) == Len(window(data)) = 0

\* FeatureExtractor._extract_price_features, when it does not raise
_extract_price_features(data) ==
    LET closes == closes_of(window(data))
        returns == returns_of(closes)
    IN [price_change_1 |-> IF Len(returns) > 0 THEN returns[Len(returns)] * 250 ELSE 0,
        price_change_5 |-> price_change(returns, 5),
        price_change_10 |-> price_change(returns, 10),
        price_std |-> std_of_closes(closes),
        price_range |-> ((SeqMax(closes) - SeqMin(closes)) * Len(closes) * 100000)
                            \div Sum(closes)]

\* FeatureExtractor._count_consecutive: True values at the end of the array
RECURSIVE _count_consecutive(_)
_count_consecutive(condition) ==
    IF Len(condition) = 0 THEN 0
    ELSE IF condition[Len(condition)]
         THEN 1 + _count_consecutive(SubSeq(condition, 1, Len(condition) - 1))
         ELSE 0

Positive(xs) == [i \in 1..Len(xs) |-> xs[i] > 0]
Negative(xs) == [i \in 1..Len(xs) |-> xs[i] < 0]
Count(condition) == Cardinality({i \in 1..Len(condition) : condition[i]})
Where(xs, condition) == [i \in 1..Len(xs) |-> IF condition[i] THEN xs[i] ELSE 0]

\* `positive_days / total_days if total_days > 0 else 0.5`
momentum_ratio(returns) ==
    IF Len(returns) > 0 THEN (Count(Positive(returns)) * 100000) \div Len(returns)
    ELSE 50000

\* FeatureExtractor._extract_momentum_features
_extract_momentum_features(data) ==
    LET returns == returns_of(closes_of(window(data)))
        positive_momentum == Sum(Where(returns, Positive(returns)))
        negative_momentum == Abs(Sum(Where(returns, Negative(returns))))
    IN [momentum_ratio |-> momentum_ratio(returns),
        momentum_strength |-> (positive_momentum - negative_momentum) * 250,
        consecutive_ups |-> _count_consecutive(Positive(returns)) * 100000,
        consecutive_downs |-> _count_consecutive(Negative(returns)) * 100000]

\* `tr`: the true range of every candle but the first, in ticks
true_ranges(historical) ==
    IF Len(historical) < 2 THEN <<>>
    ELSE [i \in 1..(Len(historical) - 1) |->
             Max3(historical[i + 1].high - historical[i + 1].low,
                  Abs(historical[i + 1].high - historical[i].close),
                  Abs(historical[i + 1].low - historical[i].close))]

\* FeatureExtractor._calculate_volatility_trend; the quotient is rounded down
\* to 1e-3
_calculate_volatility_trend(returns) ==
    IF Len(returns) < 10 THEN 0
    ELSE LET recent_vol == std_of_returns(LastOf(returns, 5))
             older_vol == std_of_returns(SubSeq(returns, Len(returns) - 9,
                                                Len(returns) - 5))
         IN IF older_vol = 0 THEN 0
            ELSE (((recent_vol - older_vol) * 1000) \div older_vol) * 100

\* FeatureExtractor._extract_volatility_features
_extract_volatility_features(data) ==
    LET historical == window(data)
        tr == true_ranges(historical)
        returns == returns_of(closes_of(historical))
    IN [volatility_short |-> IF Len(returns) >= 5
                             THEN std_of_returns(LastOf(returns, 5)) ELSE 0,
        volatility_medium |-> IF Len(returns) >= 10
                              THEN std_of_returns(LastOf(returns, 10)) ELSE 0,
        volatility_long |-> std_of_returns(returns),
        avg_true_range |-> IF Len(tr) > 0 THEN (Sum(tr) * 5000) \div Len(tr) ELSE 0,
        volatility_trend |-> _calculate_volatility_trend(returns)]

\* TypeError on a missing rsi or atr, ZeroDivisionError on a zero divisor
indicator_features_raise(price, ind) ==
    \/ Len(ind.rsi) = 0
    \/ ind.sma_20 = 0
    \/ ind.sma_50 = 0
    \/ Len(ind.atr) = 0
    \/ price = 0

\* FeatureExtractor._extract_indicator_features, when it does not raise
_extract_indicator_features(price, ind) ==
    [rsi |-> ind.rsi[1] * 100000,
     rsi_normalized |-> (ind.rsi[1] - 50) * 2000,
     sma_cross |-> ((price - ind.sma_20) * 100000) \div ind.sma_20,
     sma_trend |-> ((ind.sma_20 - ind.sma_50) * 100000) \div ind.sma_50,
     atr_normalized |-> (ind.atr[1] * 100000) \div price]

\* FeatureExtractor._extract_volume_features on a window that is not empty
_extract_volume_features(data) ==
    LET historical == window(data)
        volumes == [i \in 1..Len(historical) |-> historical[i].volume]
        total == Sum(volumes)
        n == Len(volumes)
    IN [volume_ratio |->
            IF total > 0
            THEN IF n >= 5 THEN (Sum(LastOf(volumes, 5)) * n * 100000) \div (5 * total)
                 ELSE 100000
            ELSE 100000,
        volume_trend |->
            IF total > 0 THEN ((volumes[n] * n - total) * 100000) \div total ELSE 0]

\* FeatureExtractor.get_feature_names; extract_features fills the dictionary in
\* the same order
get_feature_names ==
    <<"price_change_1", "price_change_5", "price_change_10", "price_std",
      "price_range", "momentum_ratio", "momentum_strength", "consecutive_ups",
      "consecutive_downs", "volatility_short", "volatility_medium",
      "volatility_long", "avg_true_range", "volatility_trend", "rsi",
      "rsi_normalized", "sma_cross", "sma_trend", "atr_normalized", "volume_ratio",
      "volume_trend">>

\* BayesianTrendForecaster._initialize_feature_weights, in tenths
_initialize_feature_weights ==
    [price_change_1 |-> 20, price_change_5 |-> 15, price_change_10 |-> 10,
     price_std |-> 0 - 3, price_range |-> 0 - 2,
     momentum_ratio |-> 25, momentum_strength |-> 20,
     consecutive_ups |-> 15, consecutive_downs |-> 0 - 15,
     volatility_short |-> 0 - 5, volatility_medium |-> 0 - 3,
     volatility_long |-> 0 - 2, avg_true_range |-> 0 - 3, volatility_trend |-> 0 - 4,
     rsi |-> 5, rsi_normalized |-> 10, sma_cross |-> 15, sma_trend |-> 12,
     atr_normalized |-> 0 - 3,
     volume_ratio |-> 5, volume_trend |-> 3]

\* `'down' in name.lower()`, over the names of the features
has_down(name) == name \in {"consecutive_downs"}

\* `score += weight * feature_value` over the items of a dictionary, in units
\* of 1e-6; nan as soon as one value is nan
RECURSIVE weighted_sum(_, _)
weighted_sum(fs, names) ==
    IF Len(names) = 0 THEN 0
    ELSE LET rest == weighted_sum(fs, Tail(names))
         IN IF fs[names[1]] = NaN \/ rest = NaN THEN NaN
            ELSE _initialize_feature_weights[names[1]] * fs[names[1]] + rest

\* `score` of _calculate_likelihood_up
up_score(fs) == weighted_sum(fs, get_feature_names)

\* `flipped_features` of _calculate_likelihood_down
flipped_features(fs) ==
    [name \in DOMAIN fs |->
        IF has_down(name) \/ fs[name] = NaN THEN fs[name] ELSE 0 - fs[name]]

\* `score` of _calculate_likelihood_down
down_score(fs) == weighted_sum(flipped_features(fs), get_feature_names)

\* 1 / (1 + np.exp(-score)) = (1 + tanh(score / 2)) / 2 in units of 1e-6, from
\* the tanh table; constant past |score| = 8
sigmoid(score) ==
    IF score = NaN THEN NaN
    ELSE LET capped == IF Abs(score) > 8000000 THEN 8000000 ELSE Abs(score)
             t == TanhPos((capped \div 10) * 1024)
         IN IF score >= 0 THEN (1000000 + t) \div 2 ELSE (1000000 - t) \div 2

\* BayesianTrendForecaster._calculate_likelihood_up
_calculate_likelihood_up(fs) == sigmoid(up_score(fs))

\* BayesianTrendForecaster._calculate_likelihood_down
_calculate_likelihood_down(fs) == sigmoid(down_score(fs))

-----------------------------------------------------------------------------
(* The requests *)

Init ==
    /\ pc = "idle"
    /\ capital \in Capitals
    /\ current_price \in Prices
    /\ volatility \in Volatilities
    /\ \E pf \in Portfolios :
          /\ open_positions = pf.open_positions
          /\ max_drawdown = pf.max_drawdown
    /\ forecast \in Forecasts
    /\ trader_profile \in TraderProfile
    /\ profile_config \in {TRADER_PROFILES[trader_profile]}
                          \cup {o.config : o \in {x \in Overrides : x.profile = trader_profile}}
    /\ rc_source = "none"
    /\ risk_constraints = NoConstraints
    /\ tool_profile = trader_profile
    /\ explored_states = <<>>
    /\ reasoning_trace = <<>>
    /\ beam = <<>>
    /\ depth = 0
    /\ next_id = 1
    /\ recommendation = NoRecommendation
    /\ previous = NoRecommendation
    /\ explored_before = 0
    /\ stages = <<>>
    /\ likelihoods = NoTriple
    /\ posteriors = NoPosteriors
    /\ trend_direction = "none"
    /\ probabilities = NoTriple
    /\ direction = "none"
    /\ historical_data = <<>>
    /\ indicators = NoIndicators
    /\ features = <<>>
    /\ likelihood_scores = NoScores

inputs == <<capital, open_positions, max_drawdown, current_price, volatility,
            forecast, trader_profile, profile_config>>

\* fields of app.models.market.MarketState, the class fetch_market_state builds
MarketStateFields == {"pair", "current_price", "timestamp", "historical_data", "indicators"}

\* attributes of market_state that TrendSenseTool.analyze reads
analyze_reads == {"volatility_20d", "sma_short", "sma_long", "prices"}

\* reading an attribute the object does not have raises AttributeError
analyze_raises == \E name \in analyze_reads : name \notin MarketStateFields

\* recommend_trade, Step 1: market_state = await self.fetch_market_state(pair)
FetchMarketState ==
    /\ pc = "idle"
    /\ stages' = Append(stages, "fetch_market_state")
    /\ pc' = "fetched"
    /\ UNCHANGED <<inputs, rc_source, risk_constraints, tool_profile, explored_states,
                   reasoning_trace, beam, depth, next_id, recommendation, previous,
                   explored_before, forecaster>>

\* recommend_trade, Step 2: trend_forecast = self.trend_sense.analyze(market_state)
Analyze ==
    /\ pc = "fetched"
    /\ stages' = Append(stages, "analyze")
    /\ pc' = IF analyze_raises THEN "analyze_raised" ELSE "forecasted"
    /\ UNCHANGED <<inputs, rc_source, risk_constraints, tool_profile, explored_states,
                   reasoning_trace, beam, depth, next_id, recommendation, previous,
                   explored_before, forecaster>>

\* risk_guard.validate_and_optimize(market_state, trend_forecast, portfolio, trader_profile),
\* called by the tests on an idle tool and by recommend_trade as Step 5
Solve ==
    /\ pc \in {"idle", "forecasted"}
    /\ risk_constraints' = validate_and_optimize(current_price, capital, profile_config)
    /\ rc_source' = "solver"
    /\ stages' = IF pc = "forecasted" THEN Append(stages, "validate_and_optimize")
                 ELSE stages
    /\ pc' = "solved"
    /\ UNCHANGED <<inputs, tool_profile, explored_states, reasoning_trace, beam, depth,
                   next_id, recommendation, previous, explored_before, forecaster>>

\* the tests' caller builds the RiskConstraints itself (capital 10000, price 1.1),
\* for a first call or for a further call on a tool that has been used
SupplyConstraints ==
    /\ \/ pc = "idle"
       \/ pc \in {"done", "raised"} /\ Len(stages) = 0
    /\ capital = 10000
    /\ current_price = 8800
    /\ risk_constraints' \in {mock_risk_constraints, invalid_mock_risk_constraints}
    /\ rc_source' = "caller"
    /\ previous' = NoRecommendation
    /\ pc' = "solved"
    /\ UNCHANGED <<inputs, tool_profile, explored_states, reasoning_trace, beam, depth,
                   next_id, recommendation, explored_before, stages, forecaster>>

\* a loop over the depths that has no upper end
depth_unbounded(d) == TRUE

\* `for depth in range(1, self.max_depth + 1)`: d is one of the loop's values
depth_in_range(d) == d <= SEARCH_MAX_DEPTH

\* a list attribute that keeps what the earlier call left in it
list_kept(old) == old

\* `self.explored_states = []`, `self.reasoning_trace = []`
reset_list(old) == <<>>

\* optimize() up to the end of depth 0 of _beam_search.  Called a second time
\* with the same arguments, the earlier result is kept in `previous`.
OptimizeBegin ==
    /\ \/ pc = "solved"
       \/ pc = "done" /\ Len(stages) = 0
    /\ stages' = IF Len(stages) > 0 THEN Append(stages, "optimize") ELSE stages
    /\ previous' = recommendation
    /\ explored_before' = Len(explored_states)
    /\ tool_profile' = trader_profile
    /\ IF constraints_not_satisfied(risk_constraints)
       THEN /\ recommendation' =
                   _create_hold_recommendation(current_price, "Risk constraints not satisfied")
            /\ explored_states' = reset_list(explored_states)
            /\ reasoning_trace' = reset_list(reasoning_trace)
            /\ beam' = <<>>
            /\ depth' = 0
            /\ next_id' = 1
            /\ pc' = "done"
       ELSE LET initial_states ==
                    _generate_initial_states(current_price, forecast, risk_constraints,
                                             open_positions, 1)
                evaluated == evaluate_all(initial_states, trader_profile, forecast,
                                          volatility, max_drawdown)
                kept == initial_beam(initial_states, trader_profile, forecast,
                                     volatility, max_drawdown)
            IN /\ explored_states' = reset_list(explored_states) \o evaluated
               /\ beam' = kept
               /\ reasoning_trace' =
                      reset_list(reasoning_trace) \o
                      << TraceLine("Generated initial candidate states",
                                   Len(initial_states), 0, 0),
                         TraceLine("Depth: Evaluated states, kept top",
                                   0, Len(initial_states), Len(kept)) >>
               /\ depth' = 1
               /\ next_id' = 1 + Len(initial_states)
               /\ recommendation' = NoRecommendation
               /\ pc' = IF depth_in_range(1) THEN "search" ELSE "extract"
    /\ UNCHANGED <<inputs, rc_source, risk_constraints, forecaster>>

\* one iteration of `for depth in range(1, self.max_depth + 1)`
ExpandDepth ==
    /\ pc = "search"
    /\ LET successors == expand_beam(beam, risk_constraints, depth, next_id)
           evaluated == evaluate_all(successors, tool_profile, forecast,
                                     volatility, max_drawdown)
           kept == prune(sort_by_score(evaluated), SEARCH_BEAM_WIDTH)
       IN IF Len(successors) = 0
          THEN /\ pc' = "extract"
               /\ UNCHANGED <<explored_states, beam, reasoning_trace, depth, next_id>>
          ELSE /\ explored_states' = explored_states \o evaluated
               /\ beam' = kept
               /\ reasoning_trace' =
                      Append(reasoning_trace,
                             TraceLine("Depth: Evaluated states, kept top",
                                       depth, Len(successors), Len(kept)))
               /\ next_id' = next_id + Len(successors)
               /\ IF depth_in_range(depth + 1)
                  THEN depth' = depth + 1 /\ pc' = "search"
                  ELSE depth' = depth /\ pc' = "extract"
    /\ UNCHANGED <<inputs, rc_source, risk_constraints, tool_profile, recommendation,
                   previous, explored_before, stages, forecaster>>

\* the end of optimize(): the clock is read, the trace completed and the best
\* state of the final beam converted; pydantic raises on an out-of-range field
Extract ==
    /\ pc = "extract"
    /\ \E execution_time \in ElapsedTimes :
          LET best_state == best_of_beam(beam, current_price, next_id)
              trace == reasoning_trace \o
                         << TraceLine("Search completed in ms", execution_time, 0, 0),
                            TraceLine("Best state score", format_4f(best_state.score), 0, 0) >>
              rec == _state_to_recommendation(best_state, forecast, trace)
          IN /\ reasoning_trace' = trace
             /\ IF recommendation_is_valid(rec)
                THEN recommendation' = rec /\ pc' = "done"
                ELSE recommendation' = NoRecommendation /\ pc' = "raised"
    /\ UNCHANGED <<inputs, rc_source, risk_constraints, tool_profile, explored_states,
                   beam, depth, next_id, previous, explored_before, stages, forecaster>>

Next ==
    \/ FetchMarketState
    \/ Analyze
    \/ Solve
    \/ SupplyConstraints
    \/ OptimizeBegin
    \/ ExpandDepth
    \/ Extract

Spec == Init /\ [][Next]_vars

\* The step ExpandDepth takes, seen on pc and depth alone: it is enabled
\* exactly when pc = "search", and it always moves pc or depth.
SearchProgress ==
    /\ pc = "search"
    /\ pc' \in {"search", "extract"}
    /\ depth' \in {depth, depth + 1}
    /\ <<pc', depth'>> /= <<pc, depth>>

\* optimize is one synchronous call: once _beam_search has entered its loop,
\* the next iteration is taken
FairSpec == Spec /\ WF_<<pc, depth>>(SearchProgress)

-----------------------------------------------------------------------------
(* The forecasters on their own, as predict_trend runs them *)

InitForecast ==
    /\ pc = "features"
    /\ capital = 10000
    /\ current_price = 8800
    /\ volatility = 5
    /\ open_positions = 0
    /\ max_drawdown = 0
    /\ forecast = ForecastGrid[1]
    /\ trader_profile = "balanced"
    /\ profile_config = TRADER_PROFILES["balanced"]
    /\ rc_source = "none"
    /\ risk_constraints = NoConstraints
    /\ tool_profile = "balanced"
    /\ explored_states = <<>>
    /\ reasoning_trace = <<>>
    /\ beam = <<>>
    /\ depth = 0
    /\ next_id = 1
    /\ recommendation = NoRecommendation
    /\ previous = NoRecommendation
    /\ explored_before = 0
    /\ stages = <<>>
    /\ likelihoods = NoTriple
    /\ posteriors = NoPosteriors
    /\ trend_direction = "none"
    /\ probabilities = NoTriple
    /\ direction = "none"
    /\ historical_data = <<>>
    /\ indicators = NoIndicators
    /\ features = <<>>
    /\ likelihood_scores = NoScores

pipeline == <<inputs, rc_source, risk_constraints, tool_profile, explored_states,
              reasoning_trace, beam, depth, next_id, recommendation, previous,
              explored_before, stages>>

\* BayesianForecaster.forecast: "Calculate likelihoods"; the two sigmoids return
\* any value of [0, 1], the neutral score is clamped
CalculateLikelihoods ==
    /\ pc = "features"
    /\ \E likelihood_up \in LikelihoodGrid, likelihood_down \in LikelihoodGrid,
          neutral_score \in NeutralScores :
          likelihoods' = [up |-> likelihood_up, down |-> likelihood_down,
                          neutral |-> _calculate_likelihood_neutral(neutral_score)]
    /\ pc' = "likelihoods"
    /\ UNCHANGED <<pipeline, posteriors, trend_direction, probabilities, direction,
                   extractor>>

\* BayesianForecaster.forecast: "Apply Bayes' theorem"
CalculatePosteriors ==
    /\ pc = "likelihoods"
    /\ posteriors' = _calculate_posteriors(likelihoods.up, likelihoods.down,
                                           likelihoods.neutral)
    /\ pc' = "posteriors"
    /\ UNCHANGED <<pipeline, likelihoods, trend_direction, probabilities, direction,
                   extractor>>

\* BayesianForecaster.forecast: "Determine dominant trend"
DetermineTrend ==
    /\ pc = "posteriors"
    /\ trend_direction' = _determine_trend(posteriors.up, posteriors.down,
                                           posteriors.neutral)
    /\ pc' = "forecast"
    /\ UNCHANGED <<pipeline, likelihoods, posteriors, probabilities, direction,
                   extractor>>

\* TrendSenseTool.analyze: "Calculate probabilities using probabilistic model";
\* the softmax output is any distribution over the three directions
CalculateProbabilities ==
    /\ pc = "features"
    /\ probabilities' \in ProbabilityTriples
    /\ pc' = "probabilities"
    /\ UNCHANGED <<pipeline, likelihoods, posteriors, trend_direction, direction,
                   extractor>>

\* TrendSenseTool.analyze: "Determine dominant direction"
DetermineDirection ==
    /\ pc = "probabilities"
    /\ direction' = _determine_direction(probabilities)
    /\ pc' = "analyzed"
    /\ UNCHANGED <<pipeline, likelihoods, posteriors, trend_direction, probabilities,
                   extractor>>

NextForecast ==
    \/ CalculateLikelihoods
    \/ CalculatePosteriors
    \/ DetermineTrend
    \/ CalculateProbabilities
    \/ DetermineDirection

ForecasterSpec == InitForecast /\ [][NextForecast]_vars

-----------------------------------------------------------------------------
\* The feature extractor and the two weighted likelihoods of the Bayesian
\* forecaster, on market states of bounded size.

MaxCandles == 21

WindowLengths == {n \in {0, 1, 3, 6, 11, 21, 22} : n <= MaxCandles}

\* closes repeat one of these cycles (ticks of 0.05), volumes one of those
CloseCycles == {<<20>>, <<20, 25>>, <<25, 20, 16>>, <<16, 20, 25, 20>>, <<25, 25, 20>>}
VolumeCycles == {<<0>>, <<2>>, <<1, 3>>}

candles(n, closes, volumes) ==
    [i \in 1..n |-> OHLCV(closes[((i - 1) % Len(closes)) + 1],
                          volumes[((i - 1) % Len(volumes)) + 1])]

HistoricalData ==
    {candles(n, c, v) : n \in WindowLengths, c \in CloseCycles, v \in VolumeCycles}

\* indicators as market_service computes them, as find_best_trade fills them in
\* (sma_20 = sma_50 = 0.0), and with the optional fields left out
Indicators ==
    {MarketIndicators(8000, 8000, <<50>>, <<20>>),
     MarketIndicators(10000, 8000, <<10>>, <<20>>),
     MarketIndicators(0, 0, <<50>>, <<0>>),
     MarketIndicators(8000, 0, <<50>>, <<20>>),
     MarketIndicators(8000, 8000, <<>>, <<>>)}

InitExtract ==
    /\ pc = "market"
    /\ capital = 10000
    /\ current_price \in Prices
    /\ volatility = 5
    /\ open_positions = 0
    /\ max_drawdown = 0
    /\ forecast = ForecastGrid[1]
    /\ trader_profile = "balanced"
    /\ profile_config = TRADER_PROFILES["balanced"]
    /\ rc_source = "none"
    /\ risk_constraints = NoConstraints
    /\ tool_profile = "balanced"
    /\ explored_states = <<>>
    /\ reasoning_trace = <<>>
    /\ beam = <<>>
    /\ depth = 0
    /\ next_id = 1
    /\ recommendation = NoRecommendation
    /\ previous = NoRecommendation
    /\ explored_before = 0
    /\ stages = <<>>
    /\ likelihoods = NoTriple
    /\ posteriors = NoPosteriors
    /\ trend_direction = "none"
    /\ probabilities = NoTriple
    /\ direction = "none"
    /\ historical_data \in HistoricalData
    /\ indicators \in Indicators
    /\ features = <<>>
    /\ likelihood_scores = NoScores

forecasts == <<likelihoods, posteriors, trend_direction, probabilities, direction>>

\* extract_features: "Price-based features"
ExtractPriceFeatures ==
    /\ pc = "market"
    /\ IF price_features_raise(historical_data)
       THEN pc' = "features_raised" /\ UNCHANGED features
       ELSE /\ features' = _extract_price_features(historical_data)
            /\ pc' = "price"
    /\ UNCHANGED <<pipeline, forecasts, historical_data, indicators, likelihood_scores>>

\* extract_features: "Momentum features"
ExtractMomentumFeatures ==
    /\ pc = "price"
    /\ features' = features @@ _extract_momentum_features(historical_data)
    /\ pc' = "momentum"
    /\ UNCHANGED <<pipeline, forecasts, historical_data, indicators, likelihood_scores>>

\* extract_features: "Volatility features"
ExtractVolatilityFeatures ==
    /\ pc = "momentum"
    /\ features' = features @@ _extract_volatility_features(historical_data)
    /\ pc' = "volatility"
    /\ UNCHANGED <<pipeline, forecasts, historical_data, indicators, likelihood_scores>>

\* extract_features: "Technical indicator features"
ExtractIndicatorFeatures ==
    /\ pc = "volatility"
    /\ IF indicator_features_raise(current_price, indicators)
       THEN pc' = "features_raised" /\ UNCHANGED features
       ELSE /\ features' = features @@ _extract_indicator_features(current_price,
                                                                  indicators)
            /\ pc' = "indicator"
    /\ UNCHANGED <<pipeline, forecasts, historical_data, indicators, likelihood_scores>>

\* extract_features: "Volume features", and the return of the dictionary
ExtractVolumeFeatures ==
    /\ pc = "indicator"
    /\ features' = features @@ _extract_volume_features(historical_data)
    /\ pc' = "extracted"
    /\ UNCHANGED <<pipeline, forecasts, historical_data, indicators, likelihood_scores>>

\* BayesianTrendForecaster.forecast: likelihood_up and likelihood_down
WeighFeatures ==
    /\ pc = "extracted"
    /\ likelihood_scores' = [up |-> up_score(features),
                             down |-> down_score(features),
                             likelihood_up |-> _calculate_likelihood_up(features),
                             likelihood_down |-> _calculate_likelihood_down(features)]
    /\ pc' = "weighed"
    /\ UNCHANGED <<pipeline, forecasts, historical_data, indicators, features>>

NextExtract ==
    \/ ExtractPriceFeatures
    \/ ExtractMomentumFeatures
    \/ ExtractVolatilityFeatures
    \/ ExtractIndicatorFeatures
    \/ ExtractVolumeFeatures
    \/ WeighFeatures

ExtractorSpec == InitExtract /\ [][NextExtract]_vars

-----------------------------------------------------------------------------
(* Properties of the risk solver *)

\* C1: whenever validate_and_optimize returns is_valid = true, the returned
\* assignment satisfies all four constraints at once:
\* position_size * stop_loss_pct <= capital * max_risk_per_trade,
\* leverage <= max_leverage,
\* take_profit_pct >= stop_loss_pct * profit_target_multiplier and
\* position_size / leverage <= capital * 0.9.
C1_ValidSolutionSatisfiesConstraints ==
    rc_source = "solver" /\ risk_constraints.is_valid =>
        /\ risk_constraints.max_position_size * risk_constraints.stop_loss_pct * 5
              <= capital * profile_config.max_risk_per_trade * 2
        /\ risk_constraints.leverage <= profile_config.max_leverage
        /\ risk_constraints.take_profit_pct * 2
              >= risk_constraints.stop_loss_pct * profile_config.profit_target_multiplier
        /\ risk_constraints.max_position_size * 40
              <= capital * 9 * risk_constraints.leverage

\* a valid solve in which the risk cap, not the size domain, limited the size
C1_Witness ==
    /\ pc = "solved"
    /\ rc_source = "solver"
    /\ risk_constraints.is_valid
    /\ capital = 10000
    /\ risk_constraints.max_position_size = 1000

\* some assignment of the search grid lies in every domain the solver checks
\* and passes the four constraints
grid_assignment_exists(cap, cfg) ==
    LET vs == _initialize_variables(cap, cfg)
        levs == leverage_candidates(vs)
    IN \E li \in 1..Len(levs), si \in 1..Len(sl_candidates),
          ti \in 1..Len(tp_multiples), pi \in 1..Len(pos_sizes) :
          /\ sl_in_domain(vs, sl_candidates[si])
          /\ tp_in_domain(vs, sl_candidates[si], tp_multiples[ti])
          /\ pos_in_domain(vs, pos_sizes[pi])
          /\ _is_valid_assignment(
                 Assignment(levs[li], sl_candidates[si],
                            tp_of(sl_candidates[si], tp_multiples[ti]), pos_sizes[pi]),
                 cap, cfg)

\* C3: when no grid assignment satisfies all constraints, validate_and_optimize
\* returns (it does not raise) a RiskConstraints with is_valid = false,
\* max_position_size 0 and a non-empty violation list; and in every result the
\* violation list is empty if and only if is_valid is true.
C3_NoSolutionIsReported ==
    rc_source = "solver" =>
        /\ ~grid_assignment_exists(capital, profile_config) =>
              /\ ~risk_constraints.is_valid
              /\ risk_constraints.max_position_size = 0
              /\ Len(risk_constraints.constraint_violations) > 0
        /\ (Len(risk_constraints.constraint_violations) = 0) <=> risk_constraints.is_valid

\* a solve that returned although the grid holds no satisfying assignment
C3_Witness ==
    /\ pc = "solved"
    /\ rc_source = "solver"
    /\ ~grid_assignment_exists(capital, profile_config)
    /\ Len(risk_constraints.constraint_violations) = 1

\* every profile record a solve may run under
ProfileConfigs ==
    {TRADER_PROFILES[p] : p \in TraderProfile} \cup {o.config : o \in Overrides}

\* C8: the risk solver is monotonic in risk tolerance: with capital, price and
\* profit_target_multiplier fixed, if profile B has max_risk_per_trade and
\* max_leverage both >= those of profile A and A's solve is valid, then B's
\* solve is valid and its position_size / leverage is not smaller than A's.
C8_SolverMonotonicInTolerance ==
    rc_source = "solver" /\ risk_constraints.is_valid =>
        \A B \in ProfileConfigs :
            /\ B.max_risk_per_trade >= profile_config.max_risk_per_trade
            /\ B.max_leverage >= profile_config.max_leverage
            /\ B.profit_target_multiplier = profile_config.profit_target_multiplier
            => LET rb == validate_and_optimize(current_price, capital, B)
               IN /\ rb.is_valid
                  /\ rb.max_position_size * risk_constraints.leverage
                        >= risk_constraints.max_position_size * rb.leverage

-----------------------------------------------------------------------------
(* Properties of the strategy search *)

\* C2: whenever the RiskConstraints passed to optimize has is_valid = false,
\* the returned recommendation has action HOLD with position size 0, whatever
\* the forecast, portfolio and profile are; no candidate state is generated or
\* explored.
C2_InvalidConstraintsGiveHold ==
    rc_source /= "none" /\ ~risk_constraints.is_valid =>
        /\ pc \in {"solved", "done"}
        /\ pc = "done" =>
              /\ Len(explored_states) = 0
              /\ Len(beam) = 0
              /\ next_id = 1
              /\ recommendation.action = "hold"
              /\ recommendation.position_size = 0

\* optimize has returned for the caller's RiskConstraints marked invalid,
\* whose other fields would allow a trade
C2_Witness ==
    /\ pc = "done"
    /\ rc_source = "caller"
    /\ ~risk_constraints.is_valid
    /\ risk_constraints.max_position_size = 5000
    /\ recommendation.action = "hold"

\* C4: for a valid risk solution, the state that optimize converts into the
\* recommendation is the highest-scoring configuration of the search: its
\* score is >= the score of every state explored during that call.
C4_ReturnedStateIsBestExplored ==
    pc = "done" /\ risk_constraints.is_valid =>
        \A i \in 1..Len(explored_states) :
            recommendation.confidence_score >= explored_states[i].score

\* the best score of a non-empty beam
RECURSIVE BestScore(_)
BestScore(b) ==
    IF Len(b) = 1 THEN b[1].score
    ELSE LET rest == BestScore(Tail(b))
         IN IF b[1].score >= rest THEN b[1].score ELSE rest

\* C5: beam search never degrades: the best score in the beam retained at
\* depth d+1 is >= the best score in the beam retained at depth d.
C5_BeamNeverDegrades ==
    [][pc = "search" /\ Len(beam) > 0 /\ Len(beam') > 0
          => BestScore(beam') >= BestScore(beam)]_vars

\* C6: optimize has no failure path besides the invalid-risk short-circuit:
\* for every forecast, portfolio, profile and valid RiskConstraints it returns
\* a TradeRecommendation without raising, the score of the selected state
\* lying in [0, 1].
C6_OptimizeNeverRaises ==
    rc_source /= "none" /\ risk_constraints.is_valid => pc /= "raised"

-----------------------------------------------------------------------------
(* The scenarios *)

\* optimize as a function of its arguments, up to the reasoning trace: the
\* state it selects, or the short-circuit HOLD
selected_state(price, fc, rc, open, profile, vol, dd) ==
    IF constraints_not_satisfied(rc)
    THEN SearchState(0, "hold", price, 0, price, price, 4, 0, 0, Reasoning("", 0))
    ELSE _beam_search(_generate_initial_states(price, fc, rc, open, 1),
                      price, rc, profile, fc, vol, dd)

\* C9 (Scenario C): for identical capital, price and forecast, the solution
\* and the recommendation computed under the configured aggressive profile
\* have leverage >= or position size >= those computed under the configured
\* conservative profile.
C9_AggressiveAtLeastConservative ==
    /\ rc_source = "solver"
    /\ trader_profile = "aggressive"
    /\ profile_config = TRADER_PROFILES["aggressive"]
    => LET conservative == validate_and_optimize(current_price, capital,
                                                  TRADER_PROFILES["conservative"])
           chosen == selected_state(current_price, forecast, conservative,
                                    open_positions, "conservative", volatility,
                                    max_drawdown)
       IN /\ \/ risk_constraints.leverage >= conservative.leverage
             \/ risk_constraints.max_position_size >= conservative.max_position_size
          /\ pc = "done" /\ chosen.score >= 0 =>
                \/ recommendation.leverage >= chosen.leverage
                \/ recommendation.position_size >= chosen.position_size

\* the aggressive profile has produced a trade on a capital for which the
\* conservative solve is valid too
C9_Witness ==
    /\ pc = "done"
    /\ rc_source = "solver"
    /\ trader_profile = "aggressive"
    /\ profile_config = TRADER_PROFILES["aggressive"]
    /\ validate_and_optimize(current_price, capital,
                             TRADER_PROFILES["conservative"]).is_valid
    /\ recommendation.action \in {"buy", "sell"}
    /\ recommendation.position_size > 0

\* C10 (Scenario B): with capital = 10.0 and the conservative profile,
\* validate_and_optimize returns is_valid = false with a non-empty violation
\* list, and optimize run on that result returns action HOLD.
C10_TinyCapitalGivesHold ==
    /\ capital = 10
    /\ trader_profile = "conservative"
    /\ profile_config = TRADER_PROFILES["conservative"]
    /\ rc_source = "solver"
    => /\ ~risk_constraints.is_valid
       /\ Len(risk_constraints.constraint_violations) > 0
       /\ pc /= "raised"
       /\ pc = "done" => recommendation.action = "hold"

\* Scenario B has run to the end
C10_Witness ==
    /\ capital = 10
    /\ trader_profile = "conservative"
    /\ profile_config = TRADER_PROFILES["conservative"]
    /\ rc_source = "solver"
    /\ pc = "done"
    /\ recommendation.action = "hold"

-----------------------------------------------------------------------------
(* Properties of the candidate states *)

\* some state of the sequence has the action
\* number of entries of `states` created at search depth d
CountDepth(states, d) ==
    Cardinality({i \in 1..Len(states) : states[i].depth = d})

HasAction(states, action) ==
    \E i \in 1..Len(states) : states[i].action = action

\* C11 (Scenario D): when portfolio.open_positions = 0, no state with action
\* CLOSE is ever generated or explored by optimize, so CLOSE is never the
\* recommended action; whenever initial states are generated, a CLOSE
\* candidate is among them exactly when open_positions > 0.
C11_CloseOnlyWithOpenPositions ==
    /\ open_positions = 0 =>
          /\ ~HasAction(explored_states, "close")
          /\ ~HasAction(beam, "close")
          /\ recommendation.action /= "close"
    /\ Len(explored_states) > 0 =>
          (HasAction(explored_states, "close") <=> open_positions > 0)
    /\ HasAction(_generate_initial_states(current_price, forecast, risk_constraints,
                                          open_positions, 1), "close")
          <=> open_positions > 0

\* a search over a portfolio without open positions has run to its end
C11_Witness ==
    /\ pc = "done"
    /\ open_positions = 0
    /\ risk_constraints.is_valid
    /\ Len(explored_states) > 4
    /\ recommendation.action \in {"buy", "sell"}


\* positions in `states` of the states with the given action
WithAction(states, action) ==
    {i \in 1..Len(states) : states[i].action = action}

\* C18: the initial states are exactly three BUY states (100%, 75%, 50% of
\* max_position_size, with the solved stop, take and leverage) iff
\* probability_up > 0.3, three SELL states at the same fractions (stop and take
\* mirrored around the price) iff probability_down > 0.3, one HOLD state of
\* size 0, one CLOSE state iff the portfolio has open positions, and nothing
\* else; all of them at depth 0 without a parent.
C18_InitialStates ==
    (pc = "search" /\ depth = 1) =>
        LET S == explored_states
            full == risk_constraints.max_position_size * 256
            fractions == {full, (full * 3) \div 4, full \div 2}
        IN /\ Cardinality(WithAction(S, "buy")) =
                  (IF forecast.probability_up > 3 THEN 3 ELSE 0)
           /\ Cardinality(WithAction(S, "sell")) =
                  (IF forecast.probability_down > 3 THEN 3 ELSE 0)
           /\ Cardinality(WithAction(S, "hold")) = 1
           /\ Cardinality(WithAction(S, "close")) = (IF open_positions > 0 THEN 1 ELSE 0)
           /\ \A i \in 1..Len(S) :
                 /\ S[i].action \in {"buy", "sell", "hold", "close"}
                 /\ S[i].depth = 0
                 /\ S[i].parent = 0
                 /\ S[i].entry_price = current_price
           /\ \A a \in {"buy", "sell"} :
                 WithAction(S, a) /= {} =>
                     {S[i].position_size : i \in WithAction(S, a)} = fractions
           /\ \A i \in WithAction(S, "buy") :
                 /\ S[i].stop_loss = risk_constraints.stop_loss
                 /\ S[i].take_profit = risk_constraints.take_profit
                 /\ S[i].leverage = risk_constraints.leverage
           /\ \A i \in WithAction(S, "sell") :
                 /\ S[i].stop_loss = 2 * current_price - risk_constraints.stop_loss
                 /\ S[i].take_profit = 2 * current_price - risk_constraints.take_profit
                 /\ S[i].leverage = risk_constraints.leverage
           /\ \A i \in WithAction(S, "hold") : S[i].position_size = 0

\* probability_up above 0.3 and probability_down exactly 0.3, open positions:
\* three BUY states, no SELL state, HOLD and CLOSE
C18_Witness ==
    /\ pc = "search"
    /\ depth = 1
    /\ forecast.probability_up > 3
    /\ forecast.probability_down = 3
    /\ open_positions > 0
    /\ Len(explored_states) = 5
    /\ Cardinality(WithAction(explored_states, "buy")) = 3

\* the explored states that were evaluated at search depth d
EvaluatedAt(states, d) ==
    {states[i] : i \in {j \in 1..Len(states) : states[j].depth = d}}

\* C19: at depth 0 and at every later depth, the beam kept after evaluation
\* is exactly the min(beam_width, n) highest-scoring of the n states evaluated
\* at that depth, in descending score order, and never holds more than
\* beam_width states.
C19_BeamIsTopOfItsDepth ==
    (pc \in {"search", "extract"}) =>
        LET d == beam[1].depth
            evaluated == EvaluatedAt(explored_states, d)
            kept == {beam[i] : i \in 1..Len(beam)}
        IN /\ Len(beam) > 0
           /\ Len(beam) <= SEARCH_BEAM_WIDTH
           /\ Cardinality(kept) = Len(beam)
           /\ kept \subseteq evaluated
           /\ Len(beam) = (IF Cardinality(evaluated) < SEARCH_BEAM_WIDTH
                           THEN Cardinality(evaluated) ELSE SEARCH_BEAM_WIDTH)
           /\ \A i \in 1..(Len(beam) - 1) : beam[i].score >= beam[i + 1].score
           /\ \A s \in evaluated \ kept : \A k \in kept : s.score <= k.score

\* eight initial states of which five are kept
C19_Witness ==
    /\ pc = "search"
    /\ depth = 1
    /\ Len(explored_states) = 8
    /\ Len(beam) = 5
    /\ beam[1].score > beam[5].score

\* C20: the beam search always terminates: it runs at most max_depth
\* expansion levels, stops at the first level without successors, every
\* explored state has a depth in 0..max_depth, and with beam width 5 and
\* max depth 3 no more than 8 + 3 * 10 = 38 states are explored.  At every
\* moment the depths are within 0..3, every level below the current one
\* produced states, and the loop has been left only after the last level or
\* at a level without successors; a search in its loop always leaves it.
C20_BeamSearchTerminates ==
    /\ [](/\ depth <= 3
          /\ \A i \in 1..Len(explored_states) : explored_states[i].depth \in 0..3
          /\ Len(explored_states) <= 38
          /\ pc = "search" =>
                /\ \A k \in 0..(depth - 1) : CountDepth(explored_states, k) > 0
                /\ CountDepth(explored_states, depth) = 0
          /\ pc = "extract" =>
                \/ CountDepth(explored_states, 3) > 0
                \/ /\ Len(expand_beam(beam, risk_constraints, depth, next_id)) = 0
                   /\ CountDepth(explored_states, depth) = 0)
    /\ (pc = "search") ~> (pc = "extract")

\* the search stopped at depth 1: no initial state has a successor
C20_Witness ==
    /\ pc = "extract"
    /\ depth = 1
    /\ Len(explored_states) > 3
    /\ Len(expand_beam(beam, risk_constraints, depth, next_id)) = 0
-----------------------------------------------------------------------------
(* Properties of the forecasters *)

\* C12: the forecast direction is the argmax of the three probabilities under
\* the fixed order up, down, neutral: bullish exactly when up is a maximum,
\* bearish exactly when down is a maximum and up is not, neutral exactly when
\* neutral alone is the maximum.  Both _determine_trend (on the posteriors)
\* and _determine_direction (on the TrendSense probabilities) behave so.
C12_DirectionIsFirstMaximum ==
    /\ pc = "forecast" =>
          LET u == posteriors.up
              d == posteriors.down
              n == posteriors.neutral
          IN /\ trend_direction = "bullish" <=> (u >= d /\ u >= n)
             /\ trend_direction = "bearish" <=> (d > u /\ d >= n)
             /\ trend_direction = "neutral" <=> (n > u /\ n > d)
    /\ pc = "analyzed" =>
          LET u == probabilities.up
              d == probabilities.down
              n == probabilities.neutral
          IN /\ direction = "bullish" <=> (u >= d /\ u >= n)
             /\ direction = "bearish" <=> (d > u /\ d >= n)
             /\ direction = "neutral" <=> (n > u /\ n > d)

\* a tie between up and down at the maximum, resolved as bullish
C12_Witness ==
    /\ pc = "forecast"
    /\ posteriors.up = posteriors.down
    /\ posteriors.up > posteriors.neutral
    /\ posteriors.neutral > 0
    /\ trend_direction = "bullish"

\* C13: the three posteriors are prior x likelihood divided by their sum
\* (priors 0.40 / 0.40 / 0.20), or the priors themselves when that sum is not
\* positive; each lies in [0, 1] and together they sum to 1.
C13_PosteriorsAreADistribution ==
    pc \in {"posteriors", "forecast"} =>
        LET total == 2 * likelihoods.up + 2 * likelihoods.down + likelihoods.neutral
        IN /\ posteriors.den > 0
           /\ posteriors.up >= 0 /\ posteriors.up <= posteriors.den
           /\ posteriors.down >= 0 /\ posteriors.down <= posteriors.den
           /\ posteriors.neutral >= 0 /\ posteriors.neutral <= posteriors.den
           /\ posteriors.up + posteriors.down + posteriors.neutral = posteriors.den
           /\ total > 0 =>
                 /\ posteriors.up * total = 2 * likelihoods.up * posteriors.den
                 /\ posteriors.down * total = 2 * likelihoods.down * posteriors.den
                 /\ posteriors.neutral * total = likelihoods.neutral * posteriors.den
           /\ total <= 0 =>
                 /\ posteriors.up * 5 = 2 * posteriors.den
                 /\ posteriors.down * 5 = 2 * posteriors.den
                 /\ posteriors.neutral * 5 = posteriors.den

\* all likelihoods zero: the forecaster falls back to its priors
C13_Witness ==
    /\ pc = "posteriors"
    /\ likelihoods.up = 0 /\ likelihoods.down = 0 /\ likelihoods.neutral = 0
    /\ posteriors.up * 5 = 2 * posteriors.den
    /\ posteriors.neutral * 5 = posteriors.den

\* C14: with a valid risk solution, probability_down <= 0.3 and no open
\* position, optimize recommends BUY or HOLD and nothing else, whatever the
\* trader profile; no SELL state is explored on the way.
C14_LowDownProbabilityGivesBuyOrHold ==
    (/\ risk_constraints.is_valid
     /\ forecast.probability_down <= 3
     /\ open_positions = 0)
    => /\ ~HasAction(explored_states, "sell")
       /\ pc = "done" => recommendation.action \in {"buy", "hold"}

C14_Witness ==
    /\ pc = "done"
    /\ risk_constraints.is_valid
    /\ forecast.probability_down <= 3
    /\ forecast.probability_up <= 3
    /\ open_positions = 0
    /\ trader_profile = "aggressive"
    /\ recommendation.action = "hold"
    /\ Len(explored_states) = 1

-----------------------------------------------------------------------------
(* Properties of the risk solution per profile *)

\* C15: whenever the solver returns a valid solution under the configured
\* profiles, risk_amount = position_size x stop_loss_pct, and it is at most
\* 0.5% of capital with leverage at most 2.0 for the conservative profile, at
\* most 3% of capital with leverage at most 10.0 for the aggressive profile.
C15_ProfileRiskLimits ==
    (/\ rc_source = "solver"
     /\ risk_constraints.is_valid
     /\ profile_config = TRADER_PROFILES[trader_profile])
    => /\ risk_constraints.risk_amount =
              risk_constraints.max_position_size * risk_constraints.stop_loss_pct
       /\ trader_profile = "conservative" =>
              /\ risk_constraints.max_position_size * risk_constraints.stop_loss_pct
                     <= 2 * capital
              /\ risk_constraints.leverage <= 8
       /\ trader_profile = "aggressive" =>
              /\ risk_constraints.max_position_size * risk_constraints.stop_loss_pct
                     <= 12 * capital
              /\ risk_constraints.leverage <= 40

\* the conservative solution of the tests: capital 10000, 5000 units at a 0.5% stop
C15_Witness ==
    /\ pc = "solved"
    /\ rc_source = "solver"
    /\ trader_profile = "conservative"
    /\ profile_config = TRADER_PROFILES["conservative"]
    /\ capital = 10000
    /\ risk_constraints.is_valid
    /\ risk_constraints.max_position_size = 5000
    /\ risk_constraints.risk_amount = 10000
    /\ risk_constraints.leverage = 4

-----------------------------------------------------------------------------
(* Properties of the orchestrated request *)

\* C16: a request handled by MCPOrchestrator.recommend_trade runs its stages
\* strictly forward and once each: the forecast, then the risk solver, then
\* the optimizer on the solver's result, none of them twice.  A request that
\* has ended has therefore gone through exactly these four calls in order.
C16_StagesRunForwardOnceEach ==
    (Len(stages) > 0 /\ pc \in {"done", "raised", "analyze_raised"})
    => /\ stages = <<"fetch_market_state", "analyze", "validate_and_optimize", "optimize">>
       /\ rc_source = "solver"

-----------------------------------------------------------------------------
(* Properties of a tool that is called again *)

\* C17: after any sequence of optimize calls on one OptiTradeTool,
\* explored_states and reasoning_trace hold only what the most recent call
\* produced: both are empty after a short-circuited call, otherwise
\* explored_states starts with this call's initial states, holds exactly the
\* states this call created, and the trace is this call's alone; the
\* recommendation is the one the current arguments determine.
C17_OnlyMostRecentCallIsKept ==
    pc = "done" =>
        IF ~risk_constraints.is_valid
        THEN /\ Len(explored_states) = 0
             /\ Len(reasoning_trace) = 0
             /\ recommendation =
                    _create_hold_recommendation(current_price, "Risk constraints not satisfied")
        ELSE LET initial_states ==
                     _generate_initial_states(current_price, forecast, risk_constraints,
                                              open_positions, 1)
                 n0 == Len(initial_states)
             IN /\ Len(explored_states) = next_id - 1
                /\ CountDepth(explored_states, 0) = n0
                /\ \A i \in 1..n0 :
                      /\ explored_states[i].action = initial_states[i].action
                      /\ explored_states[i].position_size = initial_states[i].position_size
                      /\ explored_states[i].depth = 0
                /\ reasoning_trace[1] = TraceLine("Generated initial candidate states", n0, 0, 0)
                /\ \A i \in 2..Len(reasoning_trace) :
                      reasoning_trace[i].kind /= "Generated initial candidate states"
                /\ Len(reasoning_trace) = 1 + (depth + 1) + 2
                      \/ Len(reasoning_trace) = 1 + depth + 2
                /\ recommendation =
                      _state_to_recommendation(
                          selected_state(current_price, forecast, risk_constraints,
                                         open_positions, trader_profile, volatility,
                                         max_drawdown),
                          forecast, reasoning_trace)

\* a short-circuited call on a tool whose earlier call explored states
C17_Witness ==
    /\ pc = "done"
    /\ explored_before > 4
    /\ ~risk_constraints.is_valid
    /\ Len(explored_states) = 0
    /\ Len(reasoning_trace) = 0

-----------------------------------------------------------------------------
(* Properties of the successor states *)

C22_HoldAndCloseAreTerminal ==
    /\ \A i \in 1..Len(explored_states) :
          /\ explored_states[i].action = "hold" => explored_states[i].score = 0
          /\ explored_states[i].action = "close" => explored_states[i].score = 10000000
          /\ explored_states[i].action \in {"hold", "close"} =>
                /\ explored_states[i].depth = 0
                /\ \A j \in 1..Len(explored_states) :
                      explored_states[j].parent /= explored_states[i].id
    /\ \A i \in 1..Len(beam) :
          beam[i].action \in {"hold", "close"} =>
              Len(_generate_successors(beam[i], risk_constraints, depth, next_id)) = 0

\* HOLD and CLOSE were the only candidates and CLOSE, scoring 0.1, was returned
C22_Witness ==
    /\ pc = "done"
    /\ open_positions > 0
    /\ Len(explored_states) = 2
    /\ explored_states[1].action = "hold" /\ explored_states[1].score = 0
    /\ explored_states[2].action = "close" /\ explored_states[2].score = 10000000
    /\ recommendation.action = "close"

-----------------------------------------------------------------------------
(* Properties of the solver's enumeration *)

\* the grid of _solve_csp: every (leverage, stop, take-profit multiple, size)
\* index tuple whose stop, take-profit and size pass the domain tests and
\* whose assignment satisfies all four constraints
ValidGrid(cap, cfg) ==
    LET vs == _initialize_variables(cap, cfg)
        levs == leverage_candidates(vs)
    IN {g \in [li : 1..Len(levs), si : 1..Len(sl_candidates),
               ti : 1..Len(tp_multiples), pi : 1..Len(pos_sizes)] :
          /\ sl_in_domain(vs, sl_candidates[g.si])
          /\ tp_in_domain(vs, sl_candidates[g.si], tp_multiples[g.ti])
          /\ pos_in_domain(vs, pos_sizes[g.pi])
          /\ _is_valid_assignment(
                 Assignment(levs[g.li], sl_candidates[g.si],
                            tp_of(sl_candidates[g.si], tp_multiples[g.ti]),
                            pos_sizes[g.pi]),
                 cap, cfg)}

\* position of a (leverage, stop, take-profit) combination in the three loops
LoopOrder(g) ==
    ((g.li - 1) * Len(sl_candidates) + (g.si - 1)) * Len(tp_multiples) + (g.ti - 1)

\* C24: the early break loses nothing.  Per (leverage, stop, take-profit)
\* combination the accepted size is the largest in-domain size candidate that
\* satisfies all constraints; the returned assignment is a valid grid
\* assignment whose position_size / leverage is the maximum over all of them,
\* and among equal maxima it is the first in enumeration order.
C24_EarlyBreakLosesNothing ==
    (pc = "solved" /\ rc_source = "solver") =>
        LET vs == _initialize_variables(capital, profile_config)
            levs == leverage_candidates(vs)
            grid == ValidGrid(capital, profile_config)
            returned == {g \in grid :
                           /\ levs[g.li] = risk_constraints.leverage
                           /\ sl_candidates[g.si] = risk_constraints.stop_loss_pct
                           /\ tp_of(sl_candidates[g.si], tp_multiples[g.ti])
                                  = risk_constraints.take_profit_pct
                           /\ pos_sizes[g.pi] = risk_constraints.max_position_size}
        IN /\ \A li \in 1..Len(levs), si \in 1..Len(sl_candidates),
                 ti \in 1..Len(tp_multiples) :
                 LET sizes == {pos_sizes[g.pi] :
                                  g \in {h \in grid : h.li = li /\ h.si = si /\ h.ti = ti}}
                     accepted ==
                         IF sl_in_domain(vs, sl_candidates[si])
                            /\ tp_in_domain(vs, sl_candidates[si], tp_multiples[ti])
                         THEN first_valid_size(vs, capital, profile_config, levs[li],
                                               sl_candidates[si],
                                               tp_of(sl_candidates[si], tp_multiples[ti]), 1)
                         ELSE None
                 IN IF sizes = {} THEN accepted = None
                    ELSE /\ accepted /= None
                         /\ accepted.position_size \in sizes
                         /\ \A s \in sizes : s <= accepted.position_size
           /\ risk_constraints.is_valid <=> grid /= {}
           /\ risk_constraints.is_valid =>
                 /\ Cardinality(returned) = 1
                 /\ \A r \in returned : \A g \in grid :
                       /\ pos_sizes[g.pi] * levs[r.li] <= pos_sizes[r.pi] * levs[g.li]
                       /\ pos_sizes[g.pi] * levs[r.li] = pos_sizes[r.pi] * levs[g.li]
                             => LoopOrder(r) <= LoopOrder(g)

\* several grid assignments share the maximum and the first of them is returned
C24_Witness ==
    /\ pc = "solved"
    /\ rc_source = "solver"
    /\ risk_constraints.is_valid
    /\ \E g \in ValidGrid(capital, profile_config) :
          /\ pos_sizes[g.pi] = risk_constraints.max_position_size
          /\ leverage_candidates(_initialize_variables(capital, profile_config))[g.li]
                 = risk_constraints.leverage
          /\ sl_candidates[g.si] > risk_constraints.stop_loss_pct
    /\ \E g \in ValidGrid(capital, profile_config) :
          pos_sizes[g.pi] < risk_constraints.max_position_size

\* C27: for each of the three configured profiles, every capital and every price,
\* a valid solution of the solver has leverage exactly 1.0: every valid grid
\* assignment has a size of at most 50% of the capital, so the margin cap
\* (size / leverage <= 90% of capital) is slack at every leverage, and the
\* objective size / leverage selects the lowest leverage candidate.
C27_ConfiguredProfilesSolveAtUnitLeverage ==
    (rc_source = "solver" /\ profile_config = TRADER_PROFILES[trader_profile]) =>
        /\ risk_constraints.is_valid => risk_constraints.leverage = 4
        /\ pc = "solved" =>
              \A g \in ValidGrid(capital, profile_config) :
                 /\ pos_sizes[g.pi] * 2 <= capital
                 /\ pos_sizes[g.pi] * 40
                       < capital * 9
                         * leverage_candidates(
                               _initialize_variables(capital, profile_config))[g.li]

\* the aggressive profile is solved at leverage 1.0 although the same size is
\* valid at leverage 10.0 as well
C27_Witness ==
    /\ pc = "solved"
    /\ rc_source = "solver"
    /\ trader_profile = "aggressive"
    /\ profile_config = TRADER_PROFILES["aggressive"]
    /\ risk_constraints.is_valid
    /\ risk_constraints.leverage = 4
    /\ \E g \in ValidGrid(capital, profile_config) :
          /\ leverage_candidates(_initialize_variables(capital, profile_config))[g.li] = 40
          /\ pos_sizes[g.pi] = risk_constraints.max_position_size

\* C28: for the configured profiles and every price, validate_and_optimize returns
\* a valid result exactly when the capital is at least 200 (the smallest size
\* candidate, 100, must not exceed capital * 0.5); whenever the result is valid
\* the returned position size is the largest size candidate that does not exceed
\* capital * 0.5.
C28_ValidIffCapitalAtLeast200 ==
    (pc = "solved" /\ rc_source = "solver"
     /\ profile_config = TRADER_PROFILES[trader_profile]) =>
        /\ risk_constraints.is_valid <=> capital >= 200
        /\ risk_constraints.is_valid =>
              /\ \E i \in 1..Len(pos_sizes) :
                    pos_sizes[i] = risk_constraints.max_position_size
              /\ risk_constraints.max_position_size * 2 <= capital
              /\ \A i \in 1..Len(pos_sizes) :
                    pos_sizes[i] * 2 <= capital
                        => pos_sizes[i] <= risk_constraints.max_position_size
        /\ \A cap \in {100, 150, 199, 200, 201, 1999} :
              LET result == validate_and_optimize(current_price, cap, profile_config)
              IN /\ result.is_valid <=> cap >= 200
                 /\ result.is_valid => result.max_position_size = 100

\* the smallest capital with a solution, and a capital between two candidates
C28_Witness ==
    /\ pc = "solved"
    /\ rc_source = "solver"
    /\ profile_config = TRADER_PROFILES[trader_profile]
    /\ risk_constraints.is_valid
    /\ \/ capital = 200 /\ risk_constraints.max_position_size = 100
       \/ capital = 20000 /\ risk_constraints.max_position_size = 10000

\* C29: the position size of every explored state, and of the returned
\* recommendation, never exceeds risk_constraints.max_position_size, and the
\* leverage of the recommendation is the solved leverage for BUY and SELL and
\* 1.0 for HOLD and CLOSE.
C29_SizeAndLeverageFollowConstraints ==
    /\ pc \in {"search", "extract", "done", "raised"} =>
          \A i \in 1..Len(explored_states) :
             /\ explored_states[i].position_size
                    <= risk_constraints.max_position_size * 256
             /\ explored_states[i].leverage =
                    IF explored_states[i].action \in {"buy", "sell"}
                    THEN risk_constraints.leverage ELSE 4
    /\ pc = "done" =>
          /\ recommendation.position_size <= risk_constraints.max_position_size * 256
          /\ recommendation.action \in {"buy", "sell"}
                 => recommendation.leverage = risk_constraints.leverage
          /\ recommendation.action \in {"hold", "close"}
                 => recommendation.leverage = 4

\* a trade is recommended at a solved leverage other than 1.0, after a state of
\* the full solved size and resized states have been explored
C29_Witness ==
    /\ pc = "done"
    /\ recommendation.action \in {"buy", "sell"}
    /\ recommendation.position_size > 0
    /\ recommendation.leverage = 8
    /\ risk_constraints.leverage = 8
    /\ \E i \in 1..Len(explored_states) :
          explored_states[i].position_size = risk_constraints.max_position_size * 256
    /\ \E i \in 1..Len(explored_states) :
          /\ explored_states[i].depth > 0
          /\ explored_states[i].position_size
                 < risk_constraints.max_position_size * 256

-----------------------------------------------------------------------------
\* Properties of the feature extractor and of the weighted likelihoods

\* C25: every ratio feature of FeatureExtractor answers a zero denominator
\* with the value 0 and without raising: momentum_ratio when there are no
\* returns, volume_ratio and volume_trend when the average volume is zero,
\* sma_cross, sma_trend and atr_normalized when sma_20, sma_50 or the current
\* price is zero, volatility_trend when the older volatility is zero.
C25_RatiosGuardZeroDenominators ==
    LET historical == window(historical_data)
        returns == returns_of(closes_of(historical))
        no_volume == \A i \in 1..Len(historical) : historical[i].volume = 0
        flat_before == /\ Len(returns) >= 10
                       /\ \A i \in (Len(returns) - 9)..(Len(returns) - 5) :
                             returns[i] = returns[Len(returns) - 9]
        zero_divisor == indicators.sma_20 = 0 \/ indicators.sma_50 = 0
                        \/ current_price = 0
    IN /\ (pc \in {"momentum", "volatility", "indicator", "extracted", "weighed"}
           /\ Len(returns) = 0)
              => features.momentum_ratio = 0
       /\ (pc \in {"volatility", "indicator", "extracted", "weighed"} /\ flat_before)
              => features.volatility_trend = 0
       /\ (pc = "features_raised" /\ Len(historical) > 0
           /\ Len(indicators.rsi) > 0 /\ Len(indicators.atr) > 0)
              => ~zero_divisor
       /\ pc \in {"indicator", "extracted", "weighed"} =>
             /\ indicators.sma_20 = 0 => features.sma_cross = 0
             /\ indicators.sma_50 = 0 => features.sma_trend = 0
             /\ current_price = 0 => features.atr_normalized = 0
       /\ (pc \in {"extracted", "weighed"} /\ no_volume)
              => features.volume_ratio = 0 /\ features.volume_trend = 0

\* C26: with fewer returns than a price-change sub-window needs (fewer than 5
\* for price_change_5, fewer than 10 for price_change_10), the feature is the
\* mean return of the whole window.
C26_ShortWindowUsesWindowMean ==
    LET returns == returns_of(closes_of(window(historical_data)))
    IN (pc \in {"price", "momentum", "volatility", "indicator", "extracted", "weighed"}
        /\ Len(returns) > 0) =>
          /\ Len(returns) < 5
                => features.price_change_5 = (Sum(returns) * 250) \div Len(returns)
          /\ Len(returns) < 10
                => features.price_change_10 = (Sum(returns) * 250) \div Len(returns)

\* C30: with all other features fixed, a larger consecutive_downs feature never
\* lowers the weighted score, nor the likelihood, of the down class.
C30_DownStreakNeverLowersDownLikelihood ==
    pc = "weighed" =>
        \A k \in 0..window_size :
            k * 100000 > features.consecutive_downs =>
                LET longer == [features EXCEPT !.consecutive_downs = k * 100000]
                IN /\ down_score(longer) >= likelihood_scores.down
                   /\ _calculate_likelihood_down(longer)
                          >= likelihood_scores.likelihood_down

=============================================================================
